---------------------------- MODULE Spec2Model ----------------------------
(***************************************************************************)
(* geniartor: the piece model (find_sonorities), the mutation primitive    *)
(* (set_new_values_for_sonority), the evaluation engine (evaluate and its  *)
(* scoring functions) and the Variable Neighborhood Search optimizer.      *)
(*                                                                         *)
(* Conventions of the model.                                               *)
(*  - Time is counted in ticks of an eighth of a measure, so the start     *)
(*    times and durations 0.125, 0.25, 0.5, 1.0 are 1, 2, 4, 8.  These     *)
(*    are exact in binary floating point, so the integer model loses       *)
(*    nothing of the source's float comparisons on them.                   *)
(*  - Indices are Python's: 0-based, -1 denotes the last element.          *)
(*  - Scores are exact rationals [n, d]; a raised exception is recorded in *)
(*    the field err of the value that would have been returned.            *)
(***************************************************************************)
EXTENDS Integers, Sequences, FiniteSets, TLC

\* ------------------------------------------------------------------ bounds

\* Greatest number of notes of a melodic line.
MaxNotes == 4
\* Greatest number of melodic lines (voices) of a piece.
MaxVoices == 2
\* Durations of the pieces in measures.
NMeasures == {1, 2}

\* ---------------------------------------------------------------- helpers

RECURSIVE SumSeq(_)
SumSeq(s) == IF s = <<>> THEN 0 ELSE Head(s) + SumSeq(Tail(s))

Min2(a, b) == IF a <= b THEN a ELSE b
Max2(a, b) == IF a >= b THEN a ELSE b
Abs(x) == IF x < 0 THEN -x ELSE x

SetMin(S) == CHOOSE x \in S : \A y \in S : x <= y
SetMax(S) == CHOOSE x \in S : \A y \in S : x >= y

\* sorted(list(set(xs))) of Python
RECURSIVE Sorted(_)
Sorted(S) == IF S = {} THEN <<>> ELSE <<SetMin(S)>> \o Sorted(S \ {SetMin(S)})

Range(s) == {s[i] : i \in DOMAIN s}

\* Python's seq[i]: 0-based, negative indices count from the end.
InRange(s, i) == (i >= 0 /\ i < Len(s)) \/ (i < 0 /\ -i <= Len(s))
At(s, i) == IF i >= 0 THEN s[i + 1] ELSE s[Len(s) + i + 1]
\* The 1-based place of Python's index i.
Place(s, i) == IF i >= 0 THEN i + 1 ELSE Len(s) + i + 1

\* ------------------------------------------------------------- data model

\* duration_of_one_measure, in ticks.
TicksPerMeasure == 8

\* The pitch pool of the repository's test pieces: C major from C4 to C5.
ScaleElement(note, semitones, degrees, degree) ==
    [note |-> note, position_in_semitones |-> semitones,
     position_in_degrees |-> degrees, degree |-> degree]

SCALE == << ScaleElement("C4", 39, 23, 1), ScaleElement("D4", 41, 24, 2),
            ScaleElement("E4", 43, 25, 3), ScaleElement("F4", 44, 26, 4),
            ScaleElement("G4", 46, 27, 5), ScaleElement("A4", 48, 28, 6),
            ScaleElement("B4", 50, 29, 7), ScaleElement("C5", 51, 30, 1) >>

PieceElement(se, start_time, duration) ==
    [note |-> se.note, position_in_semitones |-> se.position_in_semitones,
     position_in_degrees |-> se.position_in_degrees, degree |-> se.degree,
     start_time |-> start_time, duration |-> duration]

Sonority(elements, indices, position_type) ==
    [elements |-> elements, indices |-> indices,
     position_type |-> position_type]

Piece(n_measures, pitches, lines, sons) ==
    [n_measures |-> n_measures, pitches |-> pitches,
     melodic_lines |-> lines, sonorities |-> sons]

\* generate_random_line: notes are contiguous and the first starts at 0; the
\* pitch of the k-th note is pitch_of[k], an element of the pool.
RECURSIVE generate_random_line(_, _, _)
generate_random_line(line_durations, pitch_of, current_time) ==
    IF line_durations = <<>> THEN <<>>
    ELSE <<PieceElement(Head(pitch_of), current_time, Head(line_durations))>>
         \o generate_random_line(Tail(line_durations), Tail(pitch_of),
                                 current_time + Head(line_durations))

\* ------------------------------------------------------- find_sonorities

get_elements_by_indices(indices, lines) ==
    [i \in 1..Min2(Len(indices), Len(lines)) |-> At(lines[i], indices[i])]

AllLinesStartTimes(lines) ==
    [i \in DOMAIN lines |-> [k \in DOMAIN lines[i] |-> lines[i][k].start_time]]

UniqueStartTimes(lines) ==
    Sorted(UNION {Range(AllLinesStartTimes(lines)[i]) : i \in DOMAIN lines})

\* A variant of PositionType that looks at the place in the measure before
\* the caller's tags.
PositionTypeCoreFirst(custom, start_time) ==
    IF start_time % TicksPerMeasure = 0 THEN "downbeat"
    ELSE IF 2 * (start_time % TicksPerMeasure) = TicksPerMeasure THEN "middle"
    ELSE IF start_time \in DOMAIN custom THEN custom[start_time]
    ELSE "other"

\* custom_position_types.get(t, core_position_types.get(t - floor(t), 'other'))
PositionType(custom, start_time) ==
    IF start_time \in DOMAIN custom THEN custom[start_time]
    ELSE IF start_time % TicksPerMeasure = 0 THEN "downbeat"
    ELSE IF 2 * (start_time % TicksPerMeasure) = TicksPerMeasure THEN "middle"
    ELSE "other"

\* The lookup line_start_times[index + 1] of the loop is out of range.
StepRaises(indices, starts) ==
    \E i \in DOMAIN indices : ~InRange(starts[i], indices[i] + 1)

\* A variant of StepIndices that advances only past a strictly earlier start.
StepIndicesStrict(indices, starts, start_time) ==
    [i \in DOMAIN indices |->
        IF At(starts[i], indices[i] + 1) < start_time
        THEN indices[i] + 1 ELSE indices[i]]

StepIndices(indices, starts, start_time) ==
    [i \in DOMAIN indices |->
        IF At(starts[i], indices[i] + 1) <= start_time
        THEN indices[i] + 1 ELSE indices[i]]

\* The loop over unique_start_times[1:-1]: acc is [err, indices, sonorities].
RECURSIVE InteriorLoop(_, _, _, _)
InteriorLoop(times, lines, custom, acc) ==
    IF times = <<>> \/ acc.err # "none" THEN acc
    ELSE IF StepRaises(acc.indices, AllLinesStartTimes(lines))
    THEN [acc EXCEPT !.err = "IndexError"]
    ELSE LET idx == StepIndices(acc.indices, AllLinesStartTimes(lines),
                                Head(times))
             son == Sonority(get_elements_by_indices(idx, lines), idx,
                             PositionType(custom, Head(times)))
         IN InteriorLoop(Tail(times), lines, custom,
                [acc EXCEPT !.indices = idx,
                            !.sonorities = Append(acc.sonorities, son)])

Interior(times) ==
    IF Len(times) <= 2 THEN <<>> ELSE SubSeq(times, 2, Len(times) - 1)

LastSonority(lines) ==
    LET last_indices == [i \in DOMAIN lines |-> -1]
    IN Sonority(get_elements_by_indices(last_indices, lines), last_indices,
                "ending")

\* The result is [err, sonorities]; err = "none" when the call returns.
find_sonorities(lines, custom) ==
    LET zeros == [i \in DOMAIN lines |-> 0]
        initial_sonority ==
            Sonority(get_elements_by_indices(zeros, lines), zeros, "beginning")
        acc == InteriorLoop(Interior(UniqueStartTimes(lines)), lines, custom,
                   [err |-> "none", indices |-> zeros,
                    sonorities |-> <<initial_sonority>>])
    IN IF acc.err # "none" THEN [err |-> acc.err, sonorities |-> <<>>]
       ELSE [err |-> "none",
             sonorities |-> Append(acc.sonorities, LastSonority(lines))]

\* ------------------------------------------ set_new_values_for_sonority

\* Lines 40-51: in each line, the note at the sonority's index takes the
\* pitch fields of the new scale element and keeps start time and duration.
\* zip() stops at the shortest of lines, indices and new values.
\* A variant of ReplaceNotes that passes the old start time as the duration.
ReplaceNotesLosingDuration(piece, sonority_position, new_values) ==
    LET indices == piece.sonorities[sonority_position + 1].indices
        lines == piece.melodic_lines
        n == Min2(Len(lines), Min2(Len(indices), Len(new_values)))
    IN [i \in DOMAIN lines |->
          IF i <= n
          THEN LET old == At(lines[i], indices[i])
               IN [lines[i] EXCEPT ![Place(lines[i], indices[i])] =
                      PieceElement(new_values[i], old.start_time,
                                   old.start_time)]
          ELSE lines[i]]

ReplaceNotes(piece, sonority_position, new_values) ==
    LET indices == piece.sonorities[sonority_position + 1].indices
        lines == piece.melodic_lines
        n == Min2(Len(lines), Min2(Len(indices), Len(new_values)))
    IN [i \in DOMAIN lines |->
          IF i <= n
          THEN LET old == At(lines[i], indices[i])
               IN [lines[i] EXCEPT ![Place(lines[i], indices[i])] =
                      PieceElement(new_values[i], old.start_time,
                                   old.duration)]
          ELSE lines[i]]

\* Lines 52-58: every sonority is rebuilt from its indices.
\* A variant of RefreshSonorities that leaves the sonorities as they were.
RefreshNothing(sonorities, lines) == sonorities

\* A variant of RefreshSonorities that loses the position types.
RefreshSonoritiesUntyped(sonorities, lines) ==
    [k \in DOMAIN sonorities |->
        Sonority(get_elements_by_indices(sonorities[k].indices, lines),
                 sonorities[k].indices, "other")]

RefreshSonorities(sonorities, lines) ==
    [k \in DOMAIN sonorities |->
        Sonority(get_elements_by_indices(sonorities[k].indices, lines),
                 sonorities[k].indices, sonorities[k].position_type)]

set_new_values_for_sonority(piece, sonority_position, new_values) ==
    LET lines == ReplaceNotes(piece, sonority_position, new_values)
    IN [piece EXCEPT !.melodic_lines = lines,
                     !.sonorities = RefreshSonorities(piece.sonorities, lines)]

\* -------------------------------------------------------------- numbers

RECURSIVE GCD(_, _)
GCD(a, b) == IF b = 0 THEN a ELSE GCD(b, a % b)

\* The rational n/d (d # 0) in lowest terms with a positive denominator.
Rat(n, d) ==
    LET g == GCD(Abs(n), Abs(d))
        s == IF d < 0 THEN -1 ELSE 1
    IN [err |-> "none", n |-> (s * n) \div g, d |-> (s * d) \div g]

Raise(e) == [err |-> e, n |-> 0, d |-> 1]
Zero == Rat(0, 1)
One == Rat(1, 1)
Half == Rat(1, 2)

\* An operation on a raised value does not happen: the exception propagates.
RAdd(x, y) == IF x.err # "none" THEN x ELSE IF y.err # "none" THEN y
              ELSE Rat(x.n * y.d + y.n * x.d, x.d * y.d)
RNeg(x) == IF x.err # "none" THEN x ELSE Rat(-x.n, x.d)
RSub(x, y) == RAdd(x, RNeg(y))
RMul(x, y) == IF x.err # "none" THEN x ELSE IF y.err # "none" THEN y
              ELSE Rat(x.n * y.n, x.d * y.d)
\* x / k for an integer k
RDiv(x, k) == IF x.err # "none" THEN x
              ELSE IF k = 0 THEN Raise("ZeroDivisionError")
              ELSE Rat(x.n, x.d * k)
RLeq(x, y) == x.n * y.d <= y.n * x.d
RLt(x, y) == x.n * y.d < y.n * x.d
RMin(x, y) == IF x.err # "none" THEN x ELSE IF y.err # "none" THEN y
              ELSE IF RLeq(x, y) THEN x ELSE y
RMax(x, y) == IF RLeq(x, y) THEN y ELSE x

RECURSIVE RSum(_)
RSum(s) == IF s = <<>> THEN Zero ELSE RAdd(Head(s), RSum(Tail(s)))

\* dict.get(key, default) and dict[key]
Get(dict, key, default) == IF key \in DOMAIN dict THEN dict[key] ELSE default
Lookup(dict, key) == IF key \in DOMAIN dict THEN dict[key] ELSE Raise("KeyError")

\* zip(xs, xs[1:]): the places k of the pairs (xs[k], xs[k + 1])
Pairs(xs) == 1..(Len(xs) - 1)

\* ---------------------------------------------------- scoring functions

N_SEMITONES_PER_OCTAVE == 12

\* A sonority is penalized when some pair of adjacent voices is too wide.
\* A variant of HasLargeInterval that also counts an interval equal to the
\* threshold.
HasLargeIntervalInclusive(sonority, max_n_semitones) ==
    \E k \in Pairs(sonority.elements) :
        Abs(sonority.elements[k + 1].position_in_semitones
            - sonority.elements[k].position_in_semitones) >= max_n_semitones

HasLargeInterval(sonority, max_n_semitones) ==
    \E k \in Pairs(sonority.elements) :
        Abs(sonority.elements[k + 1].position_in_semitones
            - sonority.elements[k].position_in_semitones) > max_n_semitones

evaluate_absence_of_large_intervals(piece, max_n_semitones) ==
    RDiv(Rat(-Cardinality({k \in DOMAIN piece.sonorities :
                 HasLargeInterval(piece.sonorities[k], max_n_semitones)}), 1),
         Len(piece.sonorities))

\* The (min, max) of each window values[k - window_size : k].
compute_rolling_extrema(values, window_size) ==
    [j \in 1..Max2(Len(values) - window_size + 1, 0) |->
        LET window == {values[i] : i \in j..(j + window_size - 1)}
        IN <<SetMin(window), SetMax(window)>>]

\* max(v for k, v in penalties.items() if k >= width), or 0 if there is none
\* A variant of NarrowRangePenalty that adds up the applicable penalties.
NarrowRangePenaltySummed(penalties, width) ==
    LET keys == Sorted({k \in DOMAIN penalties : k >= width})
    IN RSum([j \in DOMAIN keys |-> penalties[keys[j]]])

\* A variant of NarrowRangePenalty that leaves out the threshold equal to
\* the width.
NarrowRangePenaltyStrict(penalties, width) ==
    LET curr_penalties == {penalties[k] : k \in {x \in DOMAIN penalties : x > width}}
    IN IF curr_penalties = {} THEN Zero
       ELSE CHOOSE v \in curr_penalties : \A w \in curr_penalties : RLeq(w, v)

NarrowRangePenalty(penalties, width) ==
    LET curr_penalties == {penalties[k] : k \in {x \in DOMAIN penalties : x >= width}}
    IN IF curr_penalties = {} THEN Zero
       ELSE CHOOSE v \in curr_penalties : \A w \in curr_penalties : RLeq(w, v)

LineNarrowRangePenalty(melodic_line, penalties, range_size) ==
    LET pitches == [k \in DOMAIN melodic_line |->
                       melodic_line[k].position_in_degrees]
        borders == compute_rolling_extrema(pitches, range_size)
    IN RSum([j \in DOMAIN borders |->
                NarrowRangePenalty(penalties, borders[j][2] - borders[j][1])])

evaluate_absence_of_narrow_ranges(piece, penalties, range_size) ==
    RDiv(RNeg(RSum([i \in DOMAIN piece.melodic_lines |->
             LineNarrowRangePenalty(piece.melodic_lines[i], penalties,
                                    range_size)])),
         Len(piece.melodic_lines))

\* interval_info of the voices k and k + 1 of a sonority
IntervalInfo(sonority, k) ==
    [lower_index |-> sonority.indices[k],
     upper_index |-> sonority.indices[k + 1],
     n_degrees |-> sonority.elements[k + 1].position_in_degrees
                   - sonority.elements[k].position_in_degrees]

ParallelPenalty(first_info, second_info, n_degrees_to_penalty) ==
    IF /\ first_info.n_degrees = second_info.n_degrees
       /\ first_info.lower_index # second_info.lower_index
       /\ first_info.upper_index # second_info.upper_index
    THEN Get(n_degrees_to_penalty, first_info.n_degrees, Zero)
    ELSE Zero

evaluate_absence_of_parallel_intervals(piece, n_degrees_to_penalty) ==
    LET sons == piece.sonorities
        PairPenalty(j) ==
            RSum([k \in Pairs(sons[j].indices) |->
                     ParallelPenalty(IntervalInfo(sons[j], k),
                                     IntervalInfo(sons[j + 1], k),
                                     n_degrees_to_penalty)])
    IN RDiv(RNeg(RSum([j \in Pairs(sons) |-> PairPenalty(j)])), Len(sons) - 1)

HasVoiceCrossing(sonority) ==
    \E k \in Pairs(sonority.elements) :
        sonority.elements[k].position_in_semitones
            >= sonority.elements[k + 1].position_in_semitones

evaluate_absence_of_voice_crossing(piece) ==
    RDiv(Rat(-Cardinality({k \in DOMAIN piece.sonorities :
                 HasVoiceCrossing(piece.sonorities[k])}), 1),
         Len(piece.sonorities))

\* curr_score of one line: the leaps penalty, the deduction, the clip at 0
\* and the division by the number of successive pairs.
LineConjunctMotion(line, penalty_deduction_per_line, n_semitones_to_penalty) ==
    LET leaps == RSum([k \in Pairs(line) |->
                    Get(n_semitones_to_penalty,
                        Abs(line[k].position_in_semitones
                            - line[k + 1].position_in_semitones), One)])
    IN RDiv(RMin(RAdd(RNeg(leaps), penalty_deduction_per_line), Zero),
            Len(line) - 1)

evaluate_conjunct_motion(piece, penalty_deduction_per_line, n_semitones_to_penalty) ==
    RDiv(RSum([i \in DOMAIN piece.melodic_lines |->
             LineConjunctMotion(piece.melodic_lines[i],
                                penalty_deduction_per_line,
                                n_semitones_to_penalty)]),
         Len(piece.melodic_lines))

\* A variant of CircleOfThirds: the degrees in the order of the scale.
CircleOfSeconds == <<1, 2, 3, 4, 5, 6, 7>>

CircleOfThirds == <<1, 3, 5, 7, 2, 4, 6>>

IsNotTertian(sonority) ==
    LET degrees == {sonority.elements[i].degree : i \in DOMAIN sonority.elements}
        active_circle == [k \in DOMAIN CircleOfThirds |->
                             IF CircleOfThirds[k] \in degrees THEN 1 ELSE 0]
        shifted_active_circle ==
            <<active_circle[Len(active_circle)]>>
            \o SubSeq(active_circle, 1, Len(active_circle) - 1)
        n_changes == Cardinality({k \in DOMAIN active_circle :
                         active_circle[k] # shifted_active_circle[k]})
    IN n_changes > 2

evaluate_dominance_of_tertian_harmony(piece) ==
    RDiv(Rat(-Cardinality({k \in DOMAIN piece.sonorities :
                 IsNotTertian(piece.sonorities[k])}), 1),
         Len(piece.sonorities))

\* combinations(elements, 2): the pairs of places i < j
compute_harmonic_stability_of_sonority(sonority_elements, n_semitones_to_stability) ==
    LET n == Len(sonority_elements)
        pairs == Sorted({c \in {i * (n + 1) + j : i \in 1..n, j \in 1..n} :
                            c \div (n + 1) < c % (n + 1)})
        Interval(c) ==
            Abs(sonority_elements[c \div (n + 1)].position_in_semitones
                - sonority_elements[c % (n + 1)].position_in_semitones)
            % N_SEMITONES_PER_OCTAVE
    IN RDiv(RSum([k \in DOMAIN pairs |->
                Lookup(n_semitones_to_stability, Interval(pairs[k]))]),
            (n * (n - 1)) \div 2)

\* min(stability - min_stability, 0) + min(max_stability - stability, 0)
\* A variant of BandDeviation that ignores the maximum of the band.
BandDeviationBelowOnly(stability, position_type, min_stabilities, max_stabilities) ==
    RMin(RSub(stability, Lookup(min_stabilities, position_type)), Zero)

BandDeviation(stability, position_type, min_stabilities, max_stabilities) ==
    RAdd(RMin(RSub(stability, Lookup(min_stabilities, position_type)), Zero),
         RMin(RSub(Lookup(max_stabilities, position_type), stability), Zero))

evaluate_harmonic_stability(piece, min_stabilities, max_stabilities, n_semitones_to_stability) ==
    RDiv(RSum([k \in DOMAIN piece.sonorities |->
             BandDeviation(
                 compute_harmonic_stability_of_sonority(
                     piece.sonorities[k].elements, n_semitones_to_stability),
                 piece.sonorities[k].position_type,
                 min_stabilities, max_stabilities)]),
         Len(piece.sonorities))

compute_tonal_stability_of_sonority(sonority_elements, degree_to_stability) ==
    RDiv(RSum([i \in DOMAIN sonority_elements |->
                Lookup(degree_to_stability, sonority_elements[i].degree)]),
         Len(sonority_elements))

evaluate_tonal_stability(piece, min_stabilities, max_stabilities, degree_to_stability) ==
    RDiv(RSum([k \in DOMAIN piece.sonorities |->
             BandDeviation(
                 compute_tonal_stability_of_sonority(
                     piece.sonorities[k].elements, degree_to_stability),
                 piece.sonorities[k].position_type,
                 min_stabilities, max_stabilities)]),
         Len(piece.sonorities))

\* ---------------------------------------------------------------- evaluate

\* Defaults of the keyword parameters.
DefaultMaxNSemitones == 16
DefaultRangeSize == 9

\* get_scoring_functions_registry: the names, with the keyword parameters
\* each function requires and those it accepts.
Registry ==
    [absence_of_large_intervals |->
         [required |-> {}, accepted |-> {"max_n_semitones"}],
     absence_of_narrow_ranges |->
         [required |-> {"penalties"}, accepted |-> {"penalties", "range_size"}],
     absence_of_parallel_intervals |->
         [required |-> {"n_degrees_to_penalty"},
          accepted |-> {"n_degrees_to_penalty"}],
     absence_of_voice_crossing |-> [required |-> {}, accepted |-> {}],
     conjunct_motion |->
         [required |-> {"penalty_deduction_per_line", "n_semitones_to_penalty"},
          accepted |-> {"penalty_deduction_per_line", "n_semitones_to_penalty"}],
     dominance_of_tertian_harmony |-> [required |-> {}, accepted |-> {}],
     harmonic_stability |->
         [required |-> {"min_stabilities", "max_stabilities",
                        "n_semitones_to_stability"},
          accepted |-> {"min_stabilities", "max_stabilities",
                        "n_semitones_to_stability"}],
     tonal_stability |->
         [required |-> {"min_stabilities", "max_stabilities",
                        "degree_to_stability"},
          accepted |-> {"min_stabilities", "max_stabilities",
                        "degree_to_stability"}]]

\* The empty parameter set {} of scoring_fn_params.get(fn_name, {}).
NoParams == [x \in {} |-> 0]

\* fn(piece, **fn_params) for the registered function fn_name.
CallScoringFn(fn_name, piece, fn_params) ==
    IF ~(Registry[fn_name].required \subseteq DOMAIN fn_params
         /\ DOMAIN fn_params \subseteq Registry[fn_name].accepted)
    THEN Raise("TypeError")
    ELSE CASE fn_name = "absence_of_large_intervals" ->
              evaluate_absence_of_large_intervals(
                  piece, Get(fn_params, "max_n_semitones", DefaultMaxNSemitones))
         [] fn_name = "absence_of_narrow_ranges" ->
              evaluate_absence_of_narrow_ranges(
                  piece, fn_params["penalties"],
                  Get(fn_params, "range_size", DefaultRangeSize))
         [] fn_name = "absence_of_parallel_intervals" ->
              evaluate_absence_of_parallel_intervals(
                  piece, fn_params["n_degrees_to_penalty"])
         [] fn_name = "absence_of_voice_crossing" ->
              evaluate_absence_of_voice_crossing(piece)
         [] fn_name = "conjunct_motion" ->
              evaluate_conjunct_motion(
                  piece, fn_params["penalty_deduction_per_line"],
                  fn_params["n_semitones_to_penalty"])
         [] fn_name = "dominance_of_tertian_harmony" ->
              evaluate_dominance_of_tertian_harmony(piece)
         [] fn_name = "harmonic_stability" ->
              evaluate_harmonic_stability(
                  piece, fn_params["min_stabilities"],
                  fn_params["max_stabilities"],
                  fn_params["n_semitones_to_stability"])
         [] fn_name = "tonal_stability" ->
              evaluate_tonal_stability(
                  piece, fn_params["min_stabilities"],
                  fn_params["max_stabilities"],
                  fn_params["degree_to_stability"])

\* One turn of the loop of evaluate on the entry (fn_name, weight); acc is
\* [score, printed], printed being the lines written when verbose.
\* A variant of EvaluateStep that assigns the contribution instead of adding it.
EvaluateStepOverwriting(acc, entry, piece, scoring_fn_params, verbose) ==
    IF entry.fn_name \notin DOMAIN Registry
    THEN [acc EXCEPT !.score = Raise("KeyError")]
    ELSE LET fn_params == Get(scoring_fn_params, entry.fn_name, NoParams)
             curr_score == RMul(entry.weight,
                                CallScoringFn(entry.fn_name, piece, fn_params))
         IN IF curr_score.err # "none"
            THEN [acc EXCEPT !.score = curr_score]
            ELSE [score |-> curr_score,
                  printed |-> IF verbose
                              THEN Append(acc.printed,
                                          <<entry.fn_name, curr_score>>)
                              ELSE acc.printed]

EvaluateStep(acc, entry, piece, scoring_fn_params, verbose) ==
    IF entry.fn_name \notin DOMAIN Registry
    THEN [acc EXCEPT !.score = Raise("KeyError")]
    ELSE LET fn_params == Get(scoring_fn_params, entry.fn_name, NoParams)
             curr_score == RMul(entry.weight,
                                CallScoringFn(entry.fn_name, piece, fn_params))
         IN IF curr_score.err # "none"
            THEN [acc EXCEPT !.score = curr_score]
            ELSE [score |-> RAdd(acc.score, curr_score),
                  printed |-> IF verbose
                              THEN Append(acc.printed,
                                          <<entry.fn_name, curr_score>>)
                              ELSE acc.printed]

RECURSIVE EvaluateLoop(_, _, _, _, _)
EvaluateLoop(acc, entries, piece, scoring_fn_params, verbose) ==
    IF entries = <<>> \/ acc.score.err # "none" THEN acc
    ELSE EvaluateLoop(
             EvaluateStep(acc, Head(entries), piece, scoring_fn_params, verbose),
             Tail(entries), piece, scoring_fn_params, verbose)

\* evaluate: scoring_coefs is the sequence of the dict's (fn_name, weight)
\* entries in its order.  The result is [score, printed].
evaluate(piece, scoring_coefs, scoring_fn_params, verbose) ==
    EvaluateLoop([score |-> Zero, printed |-> <<>>], scoring_coefs, piece,
                 scoring_fn_params, verbose)

\* ------------------------------------------------------------- optimizer

\* itertools.combinations(range(lo, n + 1), k) in its order: the strictly
\* increasing k-tuples of places of the pool.
RECURSIVE CombinationsFrom(_, _, _)
CombinationsFrom(lo, n, k) ==
    IF k = 0 THEN << <<>> >>
    ELSE IF lo > n THEN <<>>
    ELSE LET with == CombinationsFrom(lo + 1, n, k - 1)
         IN [j \in DOMAIN with |-> <<lo>> \o with[j]]
            \o CombinationsFrom(lo + 1, n, k)

\* itertools.combinations(piece.pitches, n_lines)
Alternatives(pitches, n_lines) ==
    LET places == CombinationsFrom(1, Len(pitches), n_lines)
    IN [j \in DOMAIN places |->
           [i \in DOMAIN places[j] |-> pitches[places[j][i]]]]

\* Pieces are objects: `objects` is the sequence of the pieces that exist,
\* and a piece is referred to by its place in it.

\* A variant of deepcopy: no object is made, the copy is the object itself.
DeepCopySharing(objects, ref) == [objects |-> objects, ref |-> ref]

\* copy.deepcopy(piece): [objects, ref], a new object of equal value.
deepcopy(objects, ref) ==
    [objects |-> Append(objects, objects[ref]), ref |-> Len(objects) + 1]

\* set_new_values_for_sonority(piece, ...) as its caller sees it: the
\* object is mutated in place, whoever else refers to it.
SetNewValuesInPlace(objects, ref, sonority_position, new_values) ==
    [objects EXCEPT ![ref] = set_new_values_for_sonority(
                                 @, sonority_position, new_values)]

\* A variant of UpdateLoop that also replaces the result by an alternative
\* of equal score.
RECURSIVE UpdateLoopKeepingLast(_, _, _, _, _, _, _, _)
UpdateLoopKeepingLast(k, alternatives, tried, objects, piece, result, sonority_position, evaluation_params) ==
    IF k > Len(alternatives) \/ result.score.err # "none"
    THEN [objects |-> objects, result |-> result]
    ELSE IF k \notin tried
    THEN UpdateLoopKeepingLast(k + 1, alternatives, tried, objects, piece, result,
                    sonority_position, evaluation_params)
    ELSE CHOOSE out \in
             {CHOOSE rest \in
                  {IF score.err # "none" \/ RLeq(result.score, score)
                   THEN LET copy == deepcopy(mutated, piece)
                        IN UpdateLoopKeepingLast(k + 1, alternatives, tried,
                                      copy.objects, piece,
                                      [piece |-> copy.ref, score |-> score],
                                      sonority_position, evaluation_params)
                   ELSE UpdateLoopKeepingLast(k + 1, alternatives, tried, mutated, piece,
                                   result, sonority_position, evaluation_params) :
                   score \in {evaluate(mutated[piece],
                                       evaluation_params.scoring_coefs,
                                       evaluation_params.scoring_fn_params,
                                       FALSE).score}} : TRUE :
              mutated \in {SetNewValuesInPlace(objects, piece,
                                               sonority_position,
                                               alternatives[k])}} : TRUE

\* The loop of update_one_sonority from the k-th alternative on.  tried is
\* the set of the alternatives that pass `random.random() > fraction_to_try`;
\* piece refers to the working copy, which every tried alternative
\* overwrites; result, [piece, score] with piece a reference, is the best of
\* the input and the alternatives tried so far.  The outcome is
\* [objects, result].  The objects after the mutation and the score are
\* bound as the only elements of a set, to be computed once.
RECURSIVE UpdateLoop(_, _, _, _, _, _, _, _)
UpdateLoop(k, alternatives, tried, objects, piece, result, sonority_position, evaluation_params) ==
    IF k > Len(alternatives) \/ result.score.err # "none"
    THEN [objects |-> objects, result |-> result]
    ELSE IF k \notin tried
    THEN UpdateLoop(k + 1, alternatives, tried, objects, piece, result,
                    sonority_position, evaluation_params)
    ELSE CHOOSE out \in
             {CHOOSE rest \in
                  {IF score.err # "none" \/ RLt(result.score, score)
                   THEN LET copy == deepcopy(mutated, piece)
                        IN UpdateLoop(k + 1, alternatives, tried,
                                      copy.objects, piece,
                                      [piece |-> copy.ref, score |-> score],
                                      sonority_position, evaluation_params)
                   ELSE UpdateLoop(k + 1, alternatives, tried, mutated, piece,
                                   result, sonority_position, evaluation_params) :
                   score \in {evaluate(mutated[piece],
                                       evaluation_params.scoring_coefs,
                                       evaluation_params.scoring_fn_params,
                                       FALSE).score}} : TRUE :
              mutated \in {SetNewValuesInPlace(objects, piece,
                                               sonority_position,
                                               alternatives[k])}} : TRUE

\* update_one_sonority: [objects, result]; a raised exception is in
\* result.score.err.
update_one_sonority(objects, result, sonority_position, tried, evaluation_params) ==
    LET copy == deepcopy(objects, result.piece)
    IN UpdateLoop(1,
                  Alternatives(objects[result.piece].pitches,
                               Len(objects[result.piece].melodic_lines)),
                  tried, copy.objects, copy.ref, result, sonority_position,
                  evaluation_params)

\* The sets of alternatives that the draws of random.random(), a number of
\* [0, 1), can let through: all when fraction_to_try >= 1, none when it is
\* negative, any set otherwise.
TriedSets(fraction_to_try, n_alternatives) ==
    IF RLeq(One, fraction_to_try) THEN {1..n_alternatives}
    ELSE IF RLt(fraction_to_try, Zero) THEN {{}}
    ELSE SUBSET (1..n_alternatives)

\* The loop of perturb from position k on, on the piece that ref refers
\* to.  to_keep[k + 1] is the draw of random.choices([False, True], weights)
\* at position k and sample[k + 1] the drawn combination (random.sample,
\* sorted by pitch).  The outcome is [err, objects, piece], piece being the
\* reference that is returned.
RECURSIVE PerturbLoop(_, _, _, _, _, _)
PerturbLoop(k, objects, ref, to_keep, sample, alternatives) ==
    IF k >= Len(objects[ref].sonorities)
    THEN [err |-> "none", objects |-> objects, piece |-> ref]
    ELSE IF to_keep[k + 1]
    THEN PerturbLoop(k + 1, objects, ref, to_keep, sample, alternatives)
    ELSE IF Len(objects[ref].pitches) < Len(objects[ref].melodic_lines)
    THEN [err |-> "ValueError", objects |-> objects, piece |-> ref]
    ELSE PerturbLoop(k + 1,
             SetNewValuesInPlace(objects, ref, k, alternatives[sample[k + 1]]),
             ref, to_keep, sample, alternatives)

perturb(objects, ref, to_keep, sample) ==
    PerturbLoop(0, objects, ref, to_keep, sample,
                Alternatives(objects[ref].pitches,
                             Len(objects[ref].melodic_lines)))

\* A variant of KeepDraws for the weights [1 - p, p].
KeepDrawsInverted(perturbation_probability) ==
    IF RLeq(perturbation_probability, Zero) THEN {FALSE}
    ELSE IF RLeq(One, perturbation_probability) THEN {TRUE}
    ELSE BOOLEAN

\* The draws of to_keep that weights [p, 1 - p] allow.
KeepDraws(perturbation_probability) ==
    IF RLeq(perturbation_probability, Zero) THEN {TRUE}
    ELSE IF RLeq(One, perturbation_probability) THEN {FALSE}
    ELSE BOOLEAN

\* ------------------------------------------------------------------ state

VARIABLES
    pc,                     \* where the modelled call stands
    melodic_lines,          \* find_sonorities: its argument
    custom_position_types,  \* find_sonorities: its argument
    sonorities,             \* find_sonorities: its outcome [err, sonorities]
    piece,                  \* the piece set_new_values_for_sonority mutates
    call,                   \* its last call: [piece, sonority_position, new_values]
    n_calls,                \* number of its calls so far
    eval_args,              \* evaluate: [piece, scoring_coefs, scoring_fn_params]
    eval_out,               \* evaluate and the scoring functions: their outcomes
    args,                   \* run_variable_neighborhood_search: its arguments
    initial_score,
    best_result,
    previous_result,
    result,
    pass_number,
    position,
    perturbed,              \* the last pass printed "perturbation is needed"
    max_current,            \* greatest score `result` has held so far
    final_piece,
    heap,                   \* the piece objects and who refers to which
    draws,                  \* update_one_sonority, perturb: their random draws
    gen_args,               \* generate_random_piece: its arguments
    gen_lines,              \* its lines_durations, generated rhythms filled in
    gen_out,                \* its outcome [err, piece]
    scale_args,             \* create_diatonic_scale, slice_scale: arguments
    scale_out               \* their outcomes [scale, pitches]

vars == <<pc, melodic_lines, custom_position_types, sonorities, piece, call,
          n_calls, eval_args, eval_out, args, initial_score, best_result,
          previous_result, result, pass_number, position, perturbed,
          max_current, final_piece, heap, draws, gen_args, gen_lines,
          gen_out, scale_args, scale_out>>

pieceVars == <<melodic_lines, custom_position_types, sonorities>>
mutVars == <<piece, call, n_calls>>
evalVars == <<eval_args, eval_out>>
searchVars == <<args, initial_score, best_result, previous_result, result,
                pass_number, position, perturbed, max_current, final_piece,
                heap, draws>>
genVars == <<gen_args, gen_lines, gen_out>>
scaleVars == <<scale_args, scale_out>>

\* Values of the variables a specification does not use.
None == [none |-> TRUE]
NoResult == [piece |-> None, score |-> Raise("unset")]

PieceIdle ==
    /\ melodic_lines = <<>> /\ custom_position_types = NoParams
    /\ sonorities = None
MutIdle == piece = None /\ call = None /\ n_calls = 0
EvalIdle == eval_args = None /\ eval_out = None
SearchIdle ==
    /\ args = None /\ initial_score = Raise("unset")
    /\ best_result = NoResult /\ previous_result = NoResult
    /\ result = NoResult /\ pass_number = 0 /\ position = 0
    /\ perturbed = FALSE /\ max_current = Raise("unset") /\ final_piece = None
    /\ heap = None /\ draws = None
GenIdle == gen_args = None /\ gen_lines = <<>> /\ gen_out = None
ScaleIdle == scale_args = None /\ scale_out = None

\* ----------------------------------------------------------------- inputs

\* The durations of the lines that are aligned, mutated, scored and
\* optimized, in ticks: 0.25, 0.5 and 1.0 of all_durations.
Durations == {2, 4, 8}

\* The lines (sequences of durations) of at most max_notes notes that last
\* n_measures.
LinesOf(n_measures, max_notes) ==
    {d \in UNION {[1..k -> Durations] : k \in 1..max_notes} :
        SumSeq(d) = n_measures * TicksPerMeasure}

\* The choices of one line per voice.
Rhythms(lines, n_voices) == [1..n_voices -> lines]

\* A melodic line of the given durations whose k-th note has the pitch
\* pitches[pitch_of[k]].
Line(durations, pitches, pitch_of) ==
    generate_random_line(durations,
                         [k \in DOMAIN durations |-> pitches[pitch_of[k]]], 0)

\* ------------------------------------------- SpecSon: find_sonorities

\* The pitch of the k-th note of the i-th line of an input of find_sonorities:
\* C4 D4 E4 F4 in the first line and G4 C5 in the second, as in the tests.
SomePitch(i, k) ==
    SCALE[(((i - 1) * 4 + (k - 1) * (2 * i - 1)) % Len(SCALE)) + 1]

\* Melodic lines that satisfy the invariants of a Piece: every line is not
\* empty, starts at 0, is contiguous and lasts n_measures.
MelodicLines(rhythm) ==
    [i \in DOMAIN rhythm |->
        generate_random_line(rhythm[i],
                             [k \in DOMAIN rhythm[i] |-> SomePitch(i, k)], 0)]

\* No custom type, a custom type for every start time, or one for the
\* start times off the half measures only.
CustomPositionTypes(n_measures) ==
    LET ticks == 0..(n_measures * TicksPerMeasure - 1)
    IN {NoParams, [t \in ticks |-> "custom"],
        [t \in {x \in ticks : x % 4 = 2} |-> "custom"]}

InitSon ==
    /\ pc = "lines"
    /\ \E n_measures \in NMeasures, n_voices \in 1..MaxVoices :
         /\ \E rhythm \in Rhythms(LinesOf(n_measures, MaxNotes), n_voices) :
              melodic_lines = MelodicLines(rhythm)
         /\ custom_position_types \in CustomPositionTypes(n_measures)
    /\ sonorities = None
    /\ MutIdle /\ EvalIdle /\ SearchIdle /\ GenIdle /\ ScaleIdle

FindSonorities ==
    /\ pc = "lines"
    /\ sonorities' = find_sonorities(melodic_lines, custom_position_types)
    /\ pc' = IF sonorities'.err = "none" THEN "found" ELSE "raised"
    /\ UNCHANGED <<melodic_lines, custom_position_types, mutVars, evalVars,
                   searchVars, genVars, scaleVars>>

NextSon == FindSonorities

SpecSon == InitSon /\ [][NextSon]_vars

\* The distinct start times of the notes of all lines, in increasing order.
Onsets == UniqueStartTimes(melodic_lines)

\* The onset of the k-th returned sonority: the k-th distinct start time,
\* and the last distinct start time for the last sonority.
OnsetOf(k) ==
    IF k = Len(sonorities.sonorities) THEN Onsets[Len(Onsets)]
    ELSE Onsets[k]

\* C3: find_sonorities returns as many sonorities as there are distinct
\* start times, also when there is only one; the first is tagged beginning
\* and the last ending whatever custom_position_types says.
C3_CountEqualsDistinctOnsets ==
    pc = "found" =>
        /\ Len(sonorities.sonorities) = Len(Onsets)
        /\ sonorities.sonorities[1].position_type = "beginning"
        /\ sonorities.sonorities[Len(sonorities.sonorities)].position_type
               = "ending"

\* The note of a line that sounds at an onset: the one with the greatest
\* start time <= the onset.
Sounding(line, onset) ==
    CHOOSE k \in DOMAIN line :
        /\ line[k].start_time <= onset
        /\ \A j \in DOMAIN line :
               line[j].start_time <= onset
                   => line[j].start_time <= line[k].start_time

\* The 2-measure scenario: C4 D4 E4 F4 of half a measure each over G4 C5 of
\* one measure each.
ScenarioLines == MelodicLines(<< <<4, 4, 4, 4>>, <<8, 8>> >>)

\* C4: in every returned sonority the index of each line (-1 being the last
\* note) selects the note with the greatest start time <= the onset, which
\* has not finished at the onset; over the interior sonorities the index of
\* a line never decreases; the 2-measure scenario yields the indices
\* [0,0],[1,0],[2,1],[-1,-1] tagged beginning, middle, downbeat, ending.
C4_IndexSelectsSoundingNote ==
    pc = "found" =>
        LET sons == sonorities.sonorities
        IN /\ \A k \in DOMAIN sons : \A i \in DOMAIN melodic_lines :
                LET line == melodic_lines[i]
                    at == Place(line, sons[k].indices[i])
                IN /\ at = Sounding(line, OnsetOf(k))
                   /\ line[at].start_time + line[at].duration > OnsetOf(k)
                   /\ sons[k].elements[i] = line[at]
           /\ \A k \in 2..(Len(sons) - 2) : \A i \in DOMAIN melodic_lines :
                sons[k].indices[i] <= sons[k + 1].indices[i]
           /\ (melodic_lines = ScenarioLines /\ custom_position_types = NoParams)
                => /\ [k \in DOMAIN sons |-> sons[k].indices]
                        = << <<0, 0>>, <<1, 0>>, <<2, 1>>, <<-1, -1>> >>
                   /\ [k \in DOMAIN sons |-> sons[k].position_type]
                        = <<"beginning", "middle", "downbeat", "ending">>

\* The scenario has been aligned, and a note is held across an onset.
C4_Witness ==
    /\ pc = "found"
    /\ melodic_lines = ScenarioLines
    /\ custom_position_types = NoParams
    /\ Len(sonorities.sonorities) = 4
    /\ sonorities.sonorities[2].indices = <<1, 0>>

\* ------------------------------- SpecMut: set_new_values_for_sonority

\* Greatest number of calls of set_new_values_for_sonority on one piece.
MaxEdits == 2

\* Numbers of voices of the pieces that are mutated.
MutVoices == {1, 2}

\* The new values of a call: scale elements, in any order, in the pool or not.
NewValues == {SCALE[2], SCALE[7]}

\* generate_random_piece, lines 457-462: the piece of the given rhythm, its
\* sonorities found by find_sonorities.
BuildPiece(n_measures, pitches, lines, custom) ==
    Piece(n_measures, pitches, lines, find_sonorities(lines, custom).sonorities)

\* The rhythms of one measure, and the 2-measure scenario.
MutRhythms ==
    [n \in NMeasures |->
        IF n = 1
        THEN UNION {Rhythms(LinesOf(1, MaxNotes), v) : v \in MutVoices}
        ELSE {<< <<4, 4, 4, 4>>, <<8, 8>> >>}]

InitMut ==
    /\ pc = "piece"
    /\ \E n_measures \in NMeasures :
         \E rhythm \in MutRhythms[n_measures] :
           /\ custom_position_types \in
                  {NoParams, [t \in 0..(n_measures * TicksPerMeasure - 1)
                                 |-> "custom"]}
           /\ find_sonorities(MelodicLines(rhythm), custom_position_types).err
                  = "none"
           /\ piece = BuildPiece(n_measures, SCALE, MelodicLines(rhythm),
                                 custom_position_types)
    /\ call = None /\ n_calls = 0
    /\ melodic_lines = <<>> /\ sonorities = None
    /\ EvalIdle /\ SearchIdle /\ GenIdle /\ ScaleIdle

SetNewValuesForSonority ==
    /\ pc = "piece"
    /\ n_calls < MaxEdits
    /\ \E sonority_position \in 0..(Len(piece.sonorities) - 1),
          new_values \in [1..Len(piece.melodic_lines) -> NewValues] :
         /\ call' = [piece |-> piece, sonority_position |-> sonority_position,
                     new_values |-> new_values]
         /\ piece' = set_new_values_for_sonority(piece, sonority_position,
                                                 new_values)
    /\ n_calls' = n_calls + 1
    /\ UNCHANGED <<pc, pieceVars, evalVars, searchVars, genVars, scaleVars>>

NextMut == SetNewValuesForSonority

SpecMut == InitMut /\ [][NextMut]_vars

\* The place, in line i, of the note that the last call targets.
Target(i) ==
    Place(call.piece.melodic_lines[i],
          call.piece.sonorities[call.sonority_position + 1].indices[i])

\* Sonority k of the piece before the call shares no note with the sonority
\* the call targets.
SharesNoNote(k) ==
    \A i \in DOMAIN call.piece.melodic_lines :
        Place(call.piece.melodic_lines[i], call.piece.sonorities[k].indices[i])
            # Target(i)

\* C5: set_new_values_for_sonority changes, in each line, only the note at
\* the index of the sonority: it takes the four pitch fields of the new value
\* and keeps start time and duration; the other notes, the number of notes,
\* pitches and n_measures are unchanged, and so are the elements of every
\* sonority that shares no note with the targeted one.
C5_OnlyTargetedNotesChange ==
    call # None =>
        /\ piece.n_measures = call.piece.n_measures
        /\ piece.pitches = call.piece.pitches
        /\ Len(piece.melodic_lines) = Len(call.piece.melodic_lines)
        /\ \A i \in DOMAIN call.piece.melodic_lines :
             LET old == call.piece.melodic_lines[i]
                 new == piece.melodic_lines[i]
             IN /\ Len(new) = Len(old)
                /\ \A k \in DOMAIN old : k # Target(i) => new[k] = old[k]
                /\ new[Target(i)] =
                       [note |-> call.new_values[i].note,
                        position_in_semitones |->
                            call.new_values[i].position_in_semitones,
                        position_in_degrees |->
                            call.new_values[i].position_in_degrees,
                        degree |-> call.new_values[i].degree,
                        start_time |-> old[Target(i)].start_time,
                        duration |-> old[Target(i)].duration]
        /\ \A k \in DOMAIN call.piece.sonorities :
             SharesNoNote(k) =>
                 piece.sonorities[k].elements = call.piece.sonorities[k].elements

\* A call has targeted a sonority that is not the first, one line holding
\* its note from an earlier sonority and another sonority sharing no note.
C5_Witness ==
    /\ call # None
    /\ call.sonority_position > 0
    /\ \E k \in DOMAIN call.piece.sonorities :
         /\ k # call.sonority_position + 1
         /\ ~SharesNoNote(k)
         /\ piece.sonorities[k].elements # call.piece.sonorities[k].elements
    /\ \E k \in DOMAIN call.piece.sonorities : SharesNoNote(k)
    /\ piece.melodic_lines # call.piece.melodic_lines

\* C6: after any sequence of calls the sonorities are those find_sonorities
\* yields on the current lines with the same custom position types: every
\* element is the note of its line at the stored index.
C6_SonoritiesAreDerived ==
    pc = "piece" =>
        /\ piece.sonorities
               = find_sonorities(piece.melodic_lines,
                                 custom_position_types).sonorities
        /\ \A k \in DOMAIN piece.sonorities :
             \A i \in DOMAIN piece.melodic_lines :
                 piece.sonorities[k].elements[i]
                     = At(piece.melodic_lines[i], piece.sonorities[k].indices[i])

\* Two calls have been made, the second on a piece the first had changed,
\* and a note that two sonorities share has a new pitch.
C6_Witness ==
    /\ n_calls = 2
    /\ piece.melodic_lines # call.piece.melodic_lines
    /\ \E k \in DOMAIN piece.sonorities :
         /\ k # call.sonority_position + 1
         /\ piece.sonorities[k].elements # call.piece.sonorities[k].elements

\* --------------------- SpecEval: evaluate and the scoring functions

\* Numbers of voices of the pieces that are evaluated.
EvalVoices == {1, 2, 3}

\* The pitches of a line: the place in SCALE of its k-th note.
PitchPatterns ==
    {[k \in 1..MaxNotes |-> 1],          \* a repeated C4
     [k \in 1..MaxNotes |-> k],          \* C4 D4 E4 F4 ...
     [k \in 1..MaxNotes |-> Len(SCALE) + 1 - k]}  \* C5 B4 A4 G4 ...

\* The valid pieces of one measure: any rhythm find_sonorities accepts, the
\* pitches of each line following one of the patterns.
PatternPiece(n_measures, rhythm, patterns) ==
    BuildPiece(n_measures, SCALE,
               [i \in DOMAIN rhythm |->
                   generate_random_line(
                       rhythm[i],
                       [k \in DOMAIN rhythm[i] |-> SCALE[patterns[i][k]]], 0)],
               NoParams)

\* Chords of whole notes, by the places of their pitches in SCALE: all seven
\* degrees, a seventh chord, and the first five degrees.
Chords == {<<1, 2, 3, 4, 5, 6, 7>>, <<1, 3, 5, 7>>, <<1, 2, 3, 4, 5>>}

EvalPieces ==
    UNION {
      {PatternPiece(1, rhythm, patterns) :
          rhythm \in {r \in Rhythms(LinesOf(1, MaxNotes), v) :
                         find_sonorities(MelodicLines(r), NoParams).err = "none"},
          patterns \in [1..v -> PitchPatterns]} :
      v \in EvalVoices}
    \cup {PatternPiece(1, [i \in DOMAIN c |-> <<TicksPerMeasure>>],
                       [i \in DOMAIN c |-> <<c[i]>>]) : c \in Chords}

Table(keys, value) == [k \in keys |-> value]
PositionTypes == {"beginning", "ending", "downbeat", "middle", "other"}

\* The tables of the repository's tests.
TestMinStabilities ==
    [beginning |-> Rat(1, 2), downbeat |-> Rat(7, 10), middle |-> Rat(1, 2),
     other |-> Rat(3, 10), ending |-> Rat(4, 5)]
TestMaxStabilities ==
    [beginning |-> Rat(4, 5), downbeat |-> One, middle |-> Rat(9, 10),
     other |-> Rat(7, 10), ending |-> One]
TestSemitonesToStability ==
    <<One, Rat(1, 5), Rat(1, 5), Rat(7, 10), Rat(4, 5), Half, Zero,
      Rat(9, 10), Rat(3, 5), Rat(3, 5), Rat(1, 5), Rat(1, 5)>>
TestDegreeToStability ==
    <<One, Rat(2, 5), Rat(7, 10), Rat(2, 5), Rat(4, 5), Rat(2, 5), Zero>>

Entry(fn_name, weight) == [fn_name |-> fn_name, weight |-> weight]

\* The parameters of the tests, every function weighted.
TestConfiguration ==
    [scoring_coefs |->
        <<Entry("absence_of_large_intervals", One),
          Entry("absence_of_narrow_ranges", Half),
          Entry("absence_of_parallel_intervals", Rat(2, 1)),
          Entry("absence_of_voice_crossing", One),
          Entry("conjunct_motion", One),
          Entry("dominance_of_tertian_harmony", Rat(3, 2)),
          Entry("harmonic_stability", One),
          Entry("tonal_stability", One)>>,
     scoring_fn_params |->
        [absence_of_narrow_ranges |->
             [penalties |-> <<One, Half>>, range_size |-> 3],
         absence_of_parallel_intervals |->
             [n_degrees_to_penalty |-> (4 :> Half) @@ (7 :> One)],
         conjunct_motion |->
             [penalty_deduction_per_line |-> Rat(1, 5),
              n_semitones_to_penalty |->
                  [k \in 0..12 |-> IF k < 3 THEN Zero ELSE Rat(k - 2, 10)]],
         harmonic_stability |->
             [min_stabilities |-> TestMinStabilities,
              max_stabilities |-> TestMaxStabilities,
              n_semitones_to_stability |->
                  [k \in 0..11 |-> TestSemitonesToStability[k + 1]]],
         tonal_stability |->
             [min_stabilities |-> TestMinStabilities,
              max_stabilities |-> TestMaxStabilities,
              degree_to_stability |-> TestDegreeToStability]]]

\* The extremes of [0, 1]: every penalty 1, an empty band, no deduction.
ExtremeConfiguration ==
    [scoring_coefs |->
        <<Entry("absence_of_narrow_ranges", One),
          Entry("absence_of_large_intervals", Rat(-1, 2)),
          Entry("absence_of_parallel_intervals", One)>>,
     scoring_fn_params |->
        [absence_of_large_intervals |-> [max_n_semitones |-> 2],
         absence_of_narrow_ranges |->
             [penalties |-> Table(0..3, One), range_size |-> 2],
         absence_of_parallel_intervals |->
             [n_degrees_to_penalty |-> Table(-7..7, One)],
         conjunct_motion |->
             [penalty_deduction_per_line |-> Zero,
              n_semitones_to_penalty |-> NoParams],
         harmonic_stability |->
             [min_stabilities |-> Table(PositionTypes, One),
              max_stabilities |-> Table(PositionTypes, Zero),
              n_semitones_to_stability |-> Table(0..11, Half)],
         tonal_stability |->
             [min_stabilities |-> Table(PositionTypes, One),
              max_stabilities |-> Table(PositionTypes, Zero),
              degree_to_stability |-> Table(1..7, Zero)]]]

\* Functions named without parameters, one of which requires some.
BareConfiguration ==
    [scoring_coefs |->
        <<Entry("absence_of_voice_crossing", One),
          Entry("absence_of_large_intervals", One),
          Entry("tonal_stability", One)>>,
     scoring_fn_params |-> NoParams]

\* A name that is not in the registry.
UnknownConfiguration ==
    [scoring_coefs |->
        <<Entry("dominance_of_tertian_harmony", One),
          Entry("absence_of_dissonance", One)>>,
     scoring_fn_params |-> NoParams]

\* Narrow ranges of three notes, penalized up to a width of one degree.
NarrowConfiguration ==
    [scoring_coefs |-> <<Entry("absence_of_narrow_ranges", One)>>,
     scoring_fn_params |->
        [absence_of_narrow_ranges |->
             [penalties |-> (0 :> One) @@ (1 :> Half), range_size |-> 3]]]

Configurations ==
    {TestConfiguration, ExtremeConfiguration, BareConfiguration,
     UnknownConfiguration, NarrowConfiguration}

InitEval ==
    /\ pc = "args"
    /\ \E p \in EvalPieces, c \in Configurations :
         eval_args = [piece |-> p, scoring_coefs |-> c.scoring_coefs,
                      scoring_fn_params |-> c.scoring_fn_params]
    /\ eval_out = None
    /\ PieceIdle /\ MutIdle /\ SearchIdle /\ GenIdle /\ ScaleIdle

\* evaluate is called on the arguments with verbose False and with verbose
\* True.
Evaluate ==
    /\ pc = "args"
    /\ eval_out' =
         [quiet |-> evaluate(eval_args.piece, eval_args.scoring_coefs,
                             eval_args.scoring_fn_params, FALSE),
          verbose |-> evaluate(eval_args.piece, eval_args.scoring_coefs,
                               eval_args.scoring_fn_params, TRUE)]
    /\ pc' = "evaluated"
    /\ UNCHANGED <<eval_args, pieceVars, mutVars, searchVars, genVars, scaleVars>>

\* One registered scoring function is called with its parameters, as at
\* lines 374-376 of evaluate.
Score ==
    /\ pc = "args"
    /\ \E fn_name \in DOMAIN Registry :
         eval_out' =
           [fn_name |-> fn_name,
            score |-> CallScoringFn(fn_name, eval_args.piece,
                          Get(eval_args.scoring_fn_params, fn_name, NoParams))]
    /\ pc' = "scored"
    /\ UNCHANGED <<eval_args, pieceVars, mutVars, searchVars, genVars, scaleVars>>

NextEval == Evaluate \/ Score

SpecEval == InitEval /\ [][NextEval]_vars

\* The weighted contribution of the k-th entry of scoring_coefs.
Contribution(k) ==
    LET entry == eval_args.scoring_coefs[k]
    IN IF entry.fn_name \notin DOMAIN Registry THEN Raise("KeyError")
       ELSE RMul(entry.weight,
                 CallScoringFn(entry.fn_name, eval_args.piece,
                     IF entry.fn_name \in DOMAIN eval_args.scoring_fn_params
                     THEN eval_args.scoring_fn_params[entry.fn_name]
                     ELSE NoParams))

\* C7: evaluate returns the sum over the entries of scoring_coefs of weight
\* times the named function applied to the piece with its parameters, the
\* empty parameter set when scoring_fn_params has no entry for it (the first
\* exception, if one is raised); the value is the same with verbose True and
\* with verbose False.
C7_EvaluateIsWeightedSum ==
    pc = "evaluated" =>
        /\ eval_out.quiet.score
               = RSum([k \in DOMAIN eval_args.scoring_coefs |-> Contribution(k)])
        /\ eval_out.verbose.score = eval_out.quiet.score
        /\ eval_out.quiet.printed = <<>>

\* Several functions have contributed to a returned score, one of them
\* called with the empty parameter set, and verbose has printed them.
C7_Witness ==
    /\ pc = "evaluated"
    /\ eval_out.quiet.score.err = "none"
    /\ RLt(eval_out.quiet.score, Zero)
    /\ Len(eval_out.verbose.printed) = Len(eval_args.scoring_coefs)
    /\ Len(eval_args.scoring_coefs) > 2
    /\ \E k \in DOMAIN eval_args.scoring_coefs :
         /\ eval_args.scoring_coefs[k].fn_name
                \notin DOMAIN eval_args.scoring_fn_params
         /\ Contribution(k) # Zero
    /\ Cardinality({k \in DOMAIN eval_args.scoring_coefs :
                       Contribution(k) # Zero}) > 1

\* The function that was scored has its parameters configured.
Configured ==
    /\ pc = "scored"
    /\ eval_out.fn_name \in DOMAIN eval_args.scoring_fn_params

InUnitRange(x) == x.err = "none" /\ RLeq(Rat(-1, 1), x) /\ RLeq(x, Zero)

\* C8: with stabilities, band limits and penalties in [0, 1] and a
\* non-negative deduction, evaluate_harmonic_stability,
\* evaluate_tonal_stability and evaluate_conjunct_motion return a defined
\* value in [-1, 0] for every valid piece (any number of voices >= 1, lines
\* of at least one note).
C8_StabilityAndMotionInUnitRange ==
    (Configured /\ eval_out.fn_name \in {"harmonic_stability",
                                         "tonal_stability", "conjunct_motion"})
        => InUnitRange(eval_out.score)

\* C9 as stated: evaluate_absence_of_narrow_ranges and
\* evaluate_absence_of_parallel_intervals return a value in [-1, 0] whenever
\* every penalty is in [0, 1], for any number of voices and any line length.
C9_NarrowAndParallelInUnitRange ==
    (Configured /\ eval_out.fn_name \in {"absence_of_narrow_ranges",
                                         "absence_of_parallel_intervals"})
        => InUnitRange(eval_out.score)

\* The number of windows of range_size notes of all the lines of the piece.
NWindows ==
    LET lines == eval_args.piece.melodic_lines
        size == Get(eval_args.scoring_fn_params["absence_of_narrow_ranges"],
                    "range_size", DefaultRangeSize)
    IN SumSeq([i \in DOMAIN lines |-> Max2(Len(lines[i]) - size + 1, 0)])

\* C9 as amended: with every penalty in [0, 1],
\* evaluate_absence_of_narrow_ranges returns a value between minus the
\* average number of windows per line and 0, and
\* evaluate_absence_of_parallel_intervals a value between
\* -(number of voices - 1) and 0.
C9_NarrowAndParallelBounded ==
    Configured =>
        /\ eval_out.fn_name = "absence_of_narrow_ranges" =>
             /\ eval_out.score.err = "none"
             /\ RLeq(eval_out.score, Zero)
             /\ RLeq(Rat(-NWindows, Len(eval_args.piece.melodic_lines)),
                     eval_out.score)
        /\ eval_out.fn_name = "absence_of_parallel_intervals" =>
             /\ eval_out.score.err = "none"
             /\ RLeq(eval_out.score, Zero)
             /\ RLeq(Rat(1 - Len(eval_args.piece.melodic_lines), 1),
                     eval_out.score)

\* A piece of one line with several windows has scored below -1 and reaches
\* the amended bound.
C9_Witness ==
    /\ Configured
    /\ eval_out.fn_name = "absence_of_narrow_ranges"
    /\ RLt(eval_out.score, Rat(-1, 1))
    /\ eval_out.score = Rat(-NWindows, Len(eval_args.piece.melodic_lines))

\* ------------------------- Spec: run_variable_neighborhood_search

\* Greatest n_passes of a search.
MaxPasses == 2

\* Numbers of voices and sizes of the pool of pitches of the pieces that are
\* optimized; some pools are smaller than the number of voices.
SearchVoices == {1, 2}
SearchPoolSizes == {1, 2, 3}

\* The lines of one measure of the pieces that are optimized.
SearchLines == {<<8>>, <<4, 4>>}

\* generate_random_piece: a piece of one measure over a pool whose notes
\* are all the first or all the last pitch of the pool.
SearchPieces ==
    UNION {
      {BuildPiece(1, SubSeq(SCALE, 1, n),
                  [i \in DOMAIN rhythm |->
                      generate_random_line(
                          rhythm[i],
                          [k \in DOMAIN rhythm[i] |-> SCALE[place]], 0)],
                  NoParams) :
          rhythm \in UNION {Rhythms(SearchLines, v) : v \in SearchVoices},
          place \in {1, n}} :
      n \in SearchPoolSizes}

\* evaluation_params: the tests' parameters with the functions that are
\* defined for every number of voices and of notes, and with one that is not.
SearchEvaluationParams ==
    {[scoring_coefs |->
         <<Entry("tonal_stability", One),
           Entry("absence_of_voice_crossing", Half)>>,
      scoring_fn_params |-> TestConfiguration.scoring_fn_params],
     [scoring_coefs |->
         <<Entry("dominance_of_tertian_harmony", One),
           Entry("harmonic_stability", One)>>,
      scoring_fn_params |-> TestConfiguration.scoring_fn_params]}

Init ==
    /\ pc = "called"
    /\ \E p \in SearchPieces, e \in SearchEvaluationParams,
          n \in 0..MaxPasses, f \in {Half, One}, q \in {Zero, Half, One} :
         args = [piece |-> p, evaluation_params |-> e, n_passes |-> n,
                 fraction_to_try |-> f, perturbation_probability |-> q]
    /\ initial_score = Raise("unset")
    /\ best_result = NoResult /\ previous_result = NoResult
    /\ result = NoResult /\ pass_number = 0 /\ position = 0
    /\ perturbed = FALSE /\ max_current = Raise("unset") /\ final_piece = None
    /\ heap = [objects |-> <<args.piece>>, input |-> 1]
    /\ draws = None
    /\ PieceIdle /\ MutIdle /\ EvalIdle /\ GenIdle /\ ScaleIdle

\* evaluate(piece, **evaluation_params, verbose=...): the score.
ScoreOf(p, verbose) ==
    evaluate(p, args.evaluation_params.scoring_coefs,
             args.evaluation_params.scoring_fn_params, verbose).score

\* A variant of LoopOrReturn: the search stops early, after a pass that has
\* not improved the result.
LoopUntilNoImprovement(n) ==
    IF /\ n < args.n_passes
       /\ ~(pc = "end_of_pass" /\ RLeq(result.score, previous_result.score))
    THEN "local_search" ELSE "return"

\* range(n_passes): the next pass, or the end of the loop.
LoopOrReturn(n) == IF n < args.n_passes THEN "local_search" ELSE "return"

\* The objects that the caller and the three results refer to, the caller's
\* piece first, and the references to them; objects that nothing refers to
\* any more are left out.
Reachable(objects, input, best, previous, current) ==
    LET refs == <<input, best, previous, current>>
        first == SelectSeq(<<1, 2, 3, 4>>,
                           LAMBDA i : \A j \in 1..(i - 1) : refs[j] # refs[i])
        place(ref) == CHOOSE k \in DOMAIN first : refs[first[k]] = ref
    IN [objects |-> [k \in DOMAIN first |-> objects[refs[first[k]]]],
        input |-> place(input), best |-> place(best),
        previous |-> place(previous), current |-> place(current)]

\* best_result, previous_result and result after a step: the pieces that
\* their references lead to, with their scores.
Results(best_score, previous_score, score) ==
    /\ best_result' = [piece |-> heap'.objects[heap'.best],
                       score |-> best_score]
    /\ previous_result' = [piece |-> heap'.objects[heap'.previous],
                           score |-> previous_score]
    /\ result' = [piece |-> heap'.objects[heap'.current], score |-> score]

\* Lines 145-148: the initial score and the three results.
Start ==
    /\ pc = "called"
    /\ initial_score' = ScoreOf(heap.objects[heap.input], FALSE)
    /\ IF initial_score'.err # "none"
       THEN /\ pc' = "raised"
            /\ UNCHANGED <<best_result, previous_result, result, max_current,
                           heap>>
       ELSE LET best == deepcopy(heap.objects, heap.input)
                previous == deepcopy(best.objects, heap.input)
                current == deepcopy(previous.objects, heap.input)
            IN /\ heap' = Reachable(current.objects, heap.input, best.ref,
                                    previous.ref, current.ref)
               /\ Results(initial_score', initial_score', initial_score')
               /\ max_current' = initial_score'
               /\ pc' = LoopOrReturn(0)
    /\ UNCHANGED <<args, pass_number, position, perturbed, final_piece, draws,
                   pieceVars, mutVars, evalVars, genVars, scaleVars>>

\* Lines 150-153: one iteration of the loop over the positions.
UpdateOneSonority ==
    /\ pc = "local_search"
    /\ \E tried \in TriedSets(args.fraction_to_try,
                       Len(Alternatives(result.piece.pitches,
                                        Len(result.piece.melodic_lines)))) :
         \E updated \in {update_one_sonority(
                            heap.objects,
                            [piece |-> heap.current, score |-> result.score],
                            position, tried, args.evaluation_params)} :
            /\ heap' = Reachable(updated.objects, heap.input, heap.best,
                                 heap.previous, updated.result.piece)
            /\ Results(best_result.score, previous_result.score,
                       updated.result.score)
    /\ IF result'.score.err # "none"
       THEN pc' = "raised" /\ UNCHANGED <<position, max_current>>
       ELSE /\ max_current' = RMax(max_current, result'.score)
            /\ position' = position + 1
            /\ pc' = IF position' < Len(args.piece.sonorities)
                     THEN "local_search" ELSE "end_of_pass"
    /\ UNCHANGED <<args, initial_score, pass_number, perturbed, final_piece,
                   draws,
                   pieceVars, mutVars, evalVars, genVars, scaleVars>>

\* A mutant of BestAfterPass: the result of the pass always replaces the
\* best result.
BestAfterPassUnconditional(best, res) == res

\* Lines 156-157: the best result after a pass that ended with res.
BestAfterPass(best, res) == IF RLt(best.score, res.score) THEN res ELSE best

\* A variant of BestCopied: the piece of the best result is replaced, its
\* score is not.
BestCopiedWithoutScore(objects, best, res) ==
    LET kept == BestAfterPass(best, res)
        copy == deepcopy(objects, kept.piece)
    IN IF kept = best THEN [objects |-> objects, result |-> best]
       ELSE [objects |-> copy.objects,
             result |-> [piece |-> copy.ref, score |-> best.score]]

\* Lines 156-157 on the objects: [objects, result], where the best result
\* refers to a copy of the piece of res if res has replaced it.
BestCopied(objects, best, res) ==
    LET kept == BestAfterPass(best, res)
        copy == deepcopy(objects, kept.piece)
    IN IF kept = best THEN [objects |-> objects, result |-> best]
       ELSE [objects |-> copy.objects,
             result |-> [piece |-> copy.ref, score |-> kept.score]]

\* best_result and result as the code holds them: a reference and a score.
BestRef == [piece |-> heap.best, score |-> best_result.score]
ResultRef == [piece |-> heap.current, score |-> result.score]

\* A variant of NeedsPerturbation: a pass that ends with the score it
\* started with is not a local optimum.
NeedsPerturbationStrict ==
    /\ ~RLt(best_result.score, result.score)
    /\ RLt(result.score, previous_result.score)

\* Line 158: the pass has improved neither the best nor the previous result.
NeedsPerturbation ==
    /\ ~RLt(best_result.score, result.score)
    /\ RLeq(result.score, previous_result.score)

\* The step of the loop over the passes.
NextPass ==
    /\ pass_number' = pass_number + 1
    /\ position' = 0
    /\ pc' = LoopOrReturn(pass_number')

\* Lines 154-157, 164: the pass has improved the best result.
KeepBest ==
    /\ pc = "end_of_pass"
    /\ RLt(best_result.score, result.score)
    /\ LET best == BestCopied(heap.objects, BestRef, ResultRef)
           previous == deepcopy(best.objects, heap.current)
       IN /\ heap' = Reachable(previous.objects, heap.input,
                               best.result.piece, previous.ref, heap.current)
          /\ Results(best.result.score, result.score, result.score)
    /\ perturbed' = FALSE
    /\ NextPass
    /\ UNCHANGED <<args, initial_score, max_current, final_piece, draws,
                   pieceVars, mutVars, evalVars, genVars, scaleVars>>

\* Lines 154-155, 158-164: a local optimum; the result is perturbed and
\* evaluated.  No pitches are drawn for a sonority that is kept.
Perturb ==
    /\ pc = "end_of_pass"
    /\ NeedsPerturbation
    /\ LET n_sonorities == Len(result.piece.sonorities)
           n_alternatives == Len(Alternatives(result.piece.pitches,
                                     Len(result.piece.melodic_lines)))
       IN \E best \in {BestCopied(heap.objects, BestRef, ResultRef)},
             to_keep \in [1..n_sonorities ->
                             KeepDraws(args.perturbation_probability)],
             sample \in [1..n_sonorities -> 1..Max2(n_alternatives, 1)] :
            /\ \A k \in 1..n_sonorities : to_keep[k] => sample[k] = 1
            /\ \E new_piece \in {perturb(best.objects, heap.current, to_keep,
                                         sample)} :
               \E score \in {IF new_piece.err # "none"
                              THEN Raise(new_piece.err)
                              ELSE ScoreOf(new_piece.objects[new_piece.piece],
                                           TRUE)} :
               LET current == deepcopy(new_piece.objects, new_piece.piece)
                   previous == deepcopy(current.objects, current.ref)
               IN IF score.err # "none"
                  THEN /\ heap' = Reachable(new_piece.objects, heap.input,
                                            best.result.piece, heap.previous,
                                            heap.current)
                       /\ Results(best.result.score, previous_result.score,
                                  result.score)
                       /\ pc' = "raised"
                       /\ UNCHANGED <<pass_number, position, perturbed,
                                      max_current>>
                  ELSE /\ heap' = Reachable(previous.objects, heap.input,
                                            best.result.piece, previous.ref,
                                            current.ref)
                       /\ Results(best.result.score, score, score)
                       /\ max_current' = RMax(max_current, score)
                       /\ perturbed' = TRUE
                       /\ NextPass
    /\ UNCHANGED <<args, initial_score, final_piece, draws,
                   pieceVars, mutVars, evalVars, genVars, scaleVars>>

\* Lines 154-156, 158, 164: the pass has improved the previous result, not
\* the best one.
Continue ==
    /\ pc = "end_of_pass"
    /\ ~RLt(best_result.score, result.score)
    /\ ~NeedsPerturbation
    /\ LET best == BestCopied(heap.objects, BestRef, ResultRef)
           previous == deepcopy(best.objects, heap.current)
       IN /\ heap' = Reachable(previous.objects, heap.input,
                               best.result.piece, previous.ref, heap.current)
          /\ Results(best.result.score, result.score, result.score)
    /\ perturbed' = FALSE
    /\ NextPass
    /\ UNCHANGED <<args, initial_score, max_current, final_piece, draws,
                   pieceVars, mutVars, evalVars, genVars, scaleVars>>

\* Lines 165-166.
Return ==
    /\ pc = "return"
    /\ final_piece' = heap.objects[heap.best]
    /\ pc' = "returned"
    /\ UNCHANGED <<args, initial_score, best_result, previous_result, result,
                   pass_number, position, perturbed, max_current, heap, draws,
                   pieceVars, mutVars, evalVars, genVars, scaleVars>>

Next ==
    \/ Start
    \/ UpdateOneSonority
    \/ KeepBest
    \/ Perturb
    \/ Continue
    \/ Return

Spec == Init /\ [][Next]_vars

\* C1: the score of best_result never decreases from one step of the search
\* to the next, hence from one pass to the next, and is never below the score
\* of the initial piece, also in the passes in which a perturbation lowers
\* the score of result.
C1_BestNeverDecreases ==
    [][pc' # "raised" =>
          /\ RLeq(initial_score', best_result'.score)
          /\ pc # "called" => RLeq(best_result.score, best_result'.score)]_vars

\* After a pass that improved the initial piece, a pass has ended with a
\* perturbation that lowered the score of result below the best score.
C1_Witness ==
    /\ pc \in {"local_search", "return"}
    /\ pass_number = 2
    /\ perturbed
    /\ RLt(initial_score, best_result.score)
    /\ RLt(result.score, best_result.score)

\* C2: when the search returns, no score that result has held during the
\* search, after a call of update_one_sonority or after a perturbation, in
\* any pass, is strictly greater than the score of the returned piece.
C2_BestIsBestEverSeen ==
    pc = "returned" =>
        /\ final_piece = best_result.piece
        /\ ~RLt(best_result.score, max_current)

\* The pool of pitches is smaller than the number of voices: the
\* combinations of update_one_sonority are empty.
EmptyNeighborhood ==
    Len(args.piece.pitches) < Len(args.piece.melodic_lines)

\* C10: with more voices than available pitches and n_passes >= 1 the
\* search never returns a piece, whatever fraction_to_try and
\* perturbation_probability are.
C10_EmptyNeighborhoodFailsFast ==
    (EmptyNeighborhood /\ args.n_passes >= 1) => pc # "returned"

\* ------------------------------------------------- rhythm of a piece

\* An Optional argument: Nothing for None, Some(x) for a value.
Nothing == <<>>
Some(x) == <<x>>
ValueOf(optional) == optional[1]

\* all_durations of select_appropriate_durations, in ticks, in its order.
all_durations == <<1, 2, 4, 8>>

\* update_current_measure_durations
update_current_measure_durations(current_measure_durations, next_duration) ==
    LET extended_duration == SumSeq(current_measure_durations) + next_duration
    IN IF extended_duration < TicksPerMeasure
       THEN Append(current_measure_durations, next_duration)
       ELSE IF extended_duration = TicksPerMeasure THEN <<>>
       ELSE <<extended_duration - TicksPerMeasure>>

\* valid_pattern[:len(extended_durations)] == extended_durations for some
\* valid pattern.
StartsValidPattern(extended_durations, valid_rhythmic_patterns) ==
    \E j \in DOMAIN valid_rhythmic_patterns :
        LET valid_pattern == valid_rhythmic_patterns[j]
        IN /\ Len(valid_pattern) >= Len(extended_durations)
           /\ SubSeq(valid_pattern, 1, Len(extended_durations))
                  = extended_durations

\* The loop of validate_line_durations from the k-th duration on; the
\* result is the raised error, "none" if the loop ends.
RECURSIVE ValidateLoop(_, _, _, _)
ValidateLoop(k, line_durations, current_measure_durations, valid_rhythmic_patterns) ==
    IF k > Len(line_durations) THEN "none"
    ELSE IF ~StartsValidPattern(
                Append(current_measure_durations, line_durations[k]),
                valid_rhythmic_patterns)
    THEN "ValueError: disallowed rhythmic pattern"
    ELSE ValidateLoop(k + 1, line_durations,
             update_current_measure_durations(current_measure_durations,
                                              line_durations[k]),
             valid_rhythmic_patterns)

\* A mutant of validate_line_durations: the total duration is checked
\* before the rhythmic patterns.
ValidateLineDurationsTotalFirst(line_durations, valid_rhythmic_patterns, n_measures) ==
    IF line_durations = Nothing THEN "none"
    ELSE IF SumSeq(ValueOf(line_durations)) # n_measures * TicksPerMeasure
    THEN "ValueError: wrong total duration"
    ELSE ValidateLoop(1, ValueOf(line_durations), <<>>,
                      valid_rhythmic_patterns)

\* validate_line_durations: "none" if the line is accepted, the raised
\* error otherwise.
validate_line_durations(line_durations, valid_rhythmic_patterns, n_measures) ==
    IF line_durations = Nothing THEN "none"
    ELSE LET raised == ValidateLoop(1, ValueOf(line_durations), <<>>,
                                    valid_rhythmic_patterns)
         IN IF raised # "none" THEN raised
            ELSE IF SumSeq(ValueOf(line_durations))
                        # n_measures * TicksPerMeasure
            THEN "ValueError: wrong total duration"
            ELSE "none"

\* The error of the first line that validate_line_durations rejects.
RECURSIVE ValidateLines(_, _, _, _)
ValidateLines(k, lines_durations, valid_rhythmic_patterns, n_measures) ==
    IF k > Len(lines_durations) THEN "none"
    ELSE LET raised == validate_line_durations(
                           lines_durations[k], valid_rhythmic_patterns,
                           n_measures)
         IN IF raised # "none" THEN raised
            ELSE ValidateLines(k + 1, lines_durations,
                               valid_rhythmic_patterns, n_measures)

\* validate_rhythm_arguments
validate_rhythm_arguments(lines_durations, valid_rhythmic_patterns, n_measures, duration_weights) ==
    IF /\ duration_weights = Nothing
       /\ \E k \in DOMAIN lines_durations : lines_durations[k] = Nothing
    THEN "ValueError: no duration weights"
    ELSE ValidateLines(1, lines_durations, valid_rhythmic_patterns,
                       n_measures)

\* select_appropriate_durations: the durations of all_durations, in its
\* order, that fit into the remaining time and continue a valid pattern.
select_appropriate_durations(current_time, total_time, current_measure_durations, valid_rhythmic_patterns) ==
    SelectSeq(all_durations,
        LAMBDA duration :
            /\ current_time + duration <= total_time
            /\ StartsValidPattern(
                   Append(current_measure_durations, duration),
                   valid_rhythmic_patterns))

\* A mutant of ChooseDuration: the weights are ignored.
ChooseDurationUnweighted(appropriate_durations, duration_weights) ==
    IF appropriate_durations = <<>>
    THEN {[err |-> "IndexError", duration |-> 0]}
    ELSE {[err |-> "none", duration |-> appropriate_durations[k]] :
             k \in DOMAIN appropriate_durations}

\* random.choices(appropriate_durations, [duration_weights[x] for ...])[0],
\* lines 223-226: the outcomes [err, duration].  A duration without a weight
\* raises KeyError, no duration at all IndexError, weights that are all
\* zero ValueError; otherwise any duration of positive weight can be drawn.
ChooseDuration(appropriate_durations, duration_weights) ==
    IF \E k \in DOMAIN appropriate_durations :
           appropriate_durations[k] \notin DOMAIN duration_weights
    THEN {[err |-> "KeyError", duration |-> 0]}
    ELSE IF appropriate_durations = <<>>
    THEN {[err |-> "IndexError", duration |-> 0]}
    ELSE IF \A k \in DOMAIN appropriate_durations :
                duration_weights[appropriate_durations[k]] = 0
    THEN {[err |-> "ValueError", duration |-> 0]}
    ELSE {[err |-> "none", duration |-> appropriate_durations[k]] :
             k \in {j \in DOMAIN appropriate_durations :
                       duration_weights[appropriate_durations[j]] > 0}}

\* The loop of generate_line_durations, lines 218-231: the outcomes
\* [err, line_durations] that the draws can produce.
RECURSIVE GenerateLoop(_, _, _, _, _, _)
GenerateLoop(current_time, total_time, current_measure_durations, line_durations, duration_weights, valid_rhythmic_patterns) ==
    IF ~(current_time < total_time)
    THEN {[err |-> "none", line_durations |-> line_durations]}
    ELSE UNION {
        IF drawn.err # "none"
        THEN {[err |-> drawn.err, line_durations |-> line_durations]}
        ELSE GenerateLoop(
                 current_time + drawn.duration, total_time,
                 update_current_measure_durations(current_measure_durations,
                                                  drawn.duration),
                 Append(line_durations, drawn.duration),
                 duration_weights, valid_rhythmic_patterns) :
        drawn \in ChooseDuration(
                      select_appropriate_durations(
                          current_time, total_time, current_measure_durations,
                          valid_rhythmic_patterns),
                      duration_weights)}

\* generate_line_durations: the outcomes [err, line_durations].
generate_line_durations(n_measures, duration_weights, valid_rhythmic_patterns, end_with_whole_note) ==
    LET total_time == (n_measures - (IF end_with_whole_note THEN 1 ELSE 0))
                          * TicksPerMeasure
    IN {IF out.err = "none" /\ end_with_whole_note
        THEN [err |-> "none",
              line_durations |-> Append(out.line_durations, TicksPerMeasure)]
        ELSE out :
        out \in GenerateLoop(0, total_time, <<>>, <<>>, duration_weights,
                             valid_rhythmic_patterns)}

\* Lines 446-450 of generate_random_piece from the k-th line on: every line
\* that is None is replaced by a generated one.  The outcomes are
\* [err, lines_durations].
RECURSIVE FillLines(_, _, _, _, _)
FillLines(k, lines_durations, n_measures, duration_weights, valid_rhythmic_patterns) ==
    IF k > Len(lines_durations)
    THEN {[err |-> "none", lines_durations |-> lines_durations]}
    ELSE IF lines_durations[k] # Nothing
    THEN FillLines(k + 1, lines_durations, n_measures, duration_weights,
                   valid_rhythmic_patterns)
    ELSE UNION {
        IF out.err # "none"
        THEN {[err |-> out.err, lines_durations |-> lines_durations]}
        ELSE FillLines(k + 1,
                       [lines_durations EXCEPT ![k] = Some(out.line_durations)],
                       n_measures, duration_weights, valid_rhythmic_patterns) :
        out \in generate_line_durations(n_measures, ValueOf(duration_weights),
                                        valid_rhythmic_patterns, TRUE)}

\* ----------------------------------------------------------- scales

\* The pitch classes from A on and the octave numbers of the note names.
PitchClasses ==
    <<"A", "A#", "B", "C", "C#", "D", "D#", "E", "F", "F#", "G", "G#">>
OctaveNames == <<"0", "1", "2", "3", "4", "5", "6", "7", "8">>

\* The number of keys of the keyboard: A0 is at 0 and C8 at 87.
NKeys == 88

\* The note at a position of the keyboard; the octave changes at C.
NoteAt(p) ==
    PitchClasses[(p % 12) + 1] \o OctaveNames[((p + 9) \div 12) + 1]

\* NOTE_TO_POSITION in the order of its items: the notes of the keyboard
\* from A0 to C8 with the positions 0, 1, ..., as the expected values of
\* the tests of create_diatonic_scale and slice_scale show.
NOTE_TO_POSITION ==
    [k \in 1..NKeys |-> [note |-> NoteAt(k - 1), position |-> k - 1]]

\* NOTE_TO_POSITION[note]: [err, position].
PositionOf(note) ==
    IF \E k \in DOMAIN NOTE_TO_POSITION : NOTE_TO_POSITION[k].note = note
    THEN [err |-> "none",
          position |-> (CHOOSE k \in DOMAIN NOTE_TO_POSITION :
                            NOTE_TO_POSITION[k].note = note) - 1]
    ELSE [err |-> "KeyError", position |-> 0]

\* patterns of create_diatonic_scale; 0 stands for None.
ScalePatterns ==
    [major |-> <<1, 0, 2, 0, 3, 4, 0, 5, 0, 6, 0, 7>>,
     natural_minor |-> <<1, 0, 2, 3, 0, 4, 0, 5, 6, 0, 7, 0>>,
     harmonic_minor |-> <<1, 0, 2, 3, 0, 4, 0, 5, 6, 0, 0, 7>>]

\* pattern[remainder] of the item of NOTE_TO_POSITION, lines 260-261.
DegreeOf(item, pattern, tonic_position) ==
    pattern[((item.position - tonic_position) % Len(pattern)) + 1]

\* The loop of create_diatonic_scale: the items whose degree is not None,
\* in the order of NOTE_TO_POSITION, numbered by position_in_degrees from 0.
ScaleLoop(pattern, tonic_position) ==
    LET kept == SelectSeq(NOTE_TO_POSITION,
                    LAMBDA item : DegreeOf(item, pattern, tonic_position) # 0)
    IN [i \in DOMAIN kept |->
           ScaleElement(kept[i].note, kept[i].position, i - 1,
                        DegreeOf(kept[i], pattern, tonic_position))]

\* create_diatonic_scale: [err, scale].
create_diatonic_scale(tonic, scale_type) ==
    IF scale_type \notin DOMAIN ScalePatterns
    THEN [err |-> "KeyError", scale |-> <<>>]
    ELSE IF PositionOf(tonic \o "1").err # "none"
    THEN [err |-> "KeyError", scale |-> <<>>]
    ELSE [err |-> "none",
          scale |-> ScaleLoop(ScalePatterns[scale_type],
                              PositionOf(tonic \o "1").position)]

\* A mutant of slice_scale: the highest note is left out.
SliceScaleExclusive(scale, lowest_note, highest_note) ==
    IF PositionOf(lowest_note).err # "none"
          \/ PositionOf(highest_note).err # "none"
    THEN [err |-> "KeyError", pitches |-> <<>>]
    ELSE [err |-> "none",
          pitches |-> SelectSeq(scale, LAMBDA x :
              /\ PositionOf(lowest_note).position <= x.position_in_semitones
              /\ x.position_in_semitones < PositionOf(highest_note).position)]

\* slice_scale: [err, pitches].
slice_scale(scale, lowest_note, highest_note) ==
    IF PositionOf(lowest_note).err # "none"
          \/ PositionOf(highest_note).err # "none"
    THEN [err |-> "KeyError", pitches |-> <<>>]
    ELSE [err |-> "none",
          pitches |-> SelectSeq(scale, LAMBDA x :
              /\ PositionOf(lowest_note).position <= x.position_in_semitones
              /\ x.position_in_semitones <= PositionOf(highest_note).position)]

\* ------------------------------------ SpecGen: generate_random_piece

\* valid_rhythmic_patterns: halves and quarters; the patterns of the tests
\* of generate_line_durations; those of the test of generate_random_piece,
\* without a whole note; a note tied over the bar line; a pattern that does
\* not fill its measure.
GenPatterns ==
    {<< <<8>>, <<4, 4>>, <<4, 2, 2>> >>,
     << <<4, 4>>, <<4, 2, 2>> >>,
     << <<8>>, <<4, 2, 2>>, <<4, 2, 1, 1>> >>,
     << <<4, 8>>, <<4, 4>> >>,
     << <<4, 2>> >>}

\* duration_weights: none, all positive, those of the tests of
\* generate_line_durations, and some without the short durations.
GenWeights ==
    {Nothing,
     Some((1 :> 1) @@ (2 :> 1) @@ (4 :> 1) @@ (8 :> 1)),
     Some((1 :> 0) @@ (2 :> 1) @@ (4 :> 1) @@ (8 :> 0)),
     Some((4 :> 1) @@ (8 :> 1))}

\* The explicit lines: of at most MaxNotes notes and two measures, of any
\* total duration, the empty line, and two lines with an eighth or a tied
\* note.
ExplicitLines ==
    {d \in UNION {[1..k -> Durations] : k \in 1..MaxNotes} :
        SumSeq(d) <= 2 * TicksPerMeasure}
    \cup {<<>>, <<4, 2, 1, 1>>, <<4, 8, 4>>}

\* lines_durations: one line, or two lines the second of which is simple.
GenLinesDurations ==
    LET lines == {Some(d) : d \in ExplicitLines} \cup {Nothing}
    IN {<<l>> : l \in lines}
       \cup {<<l, m>> : l \in lines,
                        m \in {Nothing, Some(<<8>>), Some(<<4, 4>>),
                              Some(<<8, 8>>)}}

\* The draws of random.choice(pitches) for the k-th note of the i-th line:
\* the place of the drawn pitch in a pool of n pitches.
PitchDraws == {"first", "stepwise"}
DrawnPlace(draw, i, k, n) == IF draw = "first" THEN 1 ELSE ((i + k) % n) + 1

InitGen ==
    /\ pc = "rhythm"
    /\ \E n_measures \in NMeasures, patterns \in GenPatterns,
          weights \in GenWeights, lines \in GenLinesDurations :
         gen_args = [tonic |-> "C", scale_type |-> "major",
                     lowest_note |-> "C4", highest_note |-> "C5",
                     n_measures |-> n_measures,
                     valid_rhythmic_patterns |-> patterns,
                     lines_durations |-> lines,
                     duration_weights |-> weights,
                     custom_position_types |-> NoParams]
    /\ gen_lines = gen_args.lines_durations
    /\ gen_out = None
    /\ PieceIdle /\ MutIdle /\ EvalIdle /\ SearchIdle /\ ScaleIdle

\* Lines 451-461 of generate_random_piece for rhythms that are all given:
\* the outcome [err, piece] for one draw of the pitches.
BuildRandomPiece(lines, draw) ==
    LET scale == create_diatonic_scale(gen_args.tonic, gen_args.scale_type)
        sliced == slice_scale(scale.scale, gen_args.lowest_note,
                              gen_args.highest_note)
        pitches == sliced.pitches
        new_lines ==
            [i \in DOMAIN lines |->
                generate_random_line(
                    ValueOf(lines[i]),
                    [k \in DOMAIN ValueOf(lines[i]) |->
                        pitches[DrawnPlace(draw, i, k, Len(pitches))]], 0)]
        found == find_sonorities(new_lines, gen_args.custom_position_types)
    IN IF scale.err # "none" THEN [err |-> scale.err, piece |-> None]
       ELSE IF sliced.err # "none" THEN [err |-> sliced.err, piece |-> None]
       ELSE IF pitches = <<>> THEN [err |-> "IndexError", piece |-> None]
       ELSE IF found.err # "none" THEN [err |-> found.err, piece |-> None]
       ELSE [err |-> "none",
             piece |-> Piece(gen_args.n_measures, pitches, new_lines,
                             found.sonorities)]

\* generate_random_piece, lines 443-462.
GenerateRandomPiece ==
    /\ pc = "rhythm"
    /\ LET raised == validate_rhythm_arguments(
                         gen_args.lines_durations,
                         gen_args.valid_rhythmic_patterns,
                         gen_args.n_measures, gen_args.duration_weights)
       IN IF raised # "none"
          THEN /\ gen_out' = [err |-> raised, piece |-> None]
               /\ gen_lines' = gen_lines
               /\ pc' = "raised"
          ELSE \E filled \in FillLines(1, gen_args.lines_durations,
                                 gen_args.n_measures,
                                 gen_args.duration_weights,
                                 gen_args.valid_rhythmic_patterns) :
                 /\ gen_lines' = filled.lines_durations
                 /\ IF filled.err # "none"
                    THEN gen_out' = [err |-> filled.err, piece |-> None]
                    ELSE \E draw \in PitchDraws :
                           gen_out' = BuildRandomPiece(filled.lines_durations,
                                                       draw)
                 /\ pc' = IF gen_out'.err = "none" THEN "generated"
                          ELSE "raised"
    /\ UNCHANGED <<gen_args, pieceVars, mutVars, evalVars, searchVars,
                   scaleVars>>

\* generate_line_durations, called with either value of
\* end_with_whole_note.
GenerateLineDurations ==
    /\ pc = "rhythm"
    /\ gen_args.duration_weights # Nothing
    /\ \E end_with_whole_note \in BOOLEAN :
         \E out \in generate_line_durations(
                        gen_args.n_measures,
                        ValueOf(gen_args.duration_weights),
                        gen_args.valid_rhythmic_patterns,
                        end_with_whole_note) :
           gen_out' = [end_with_whole_note |-> end_with_whole_note,
                       err |-> out.err,
                       line_durations |-> out.line_durations]
    /\ pc' = "line_generated"
    /\ UNCHANGED <<gen_args, gen_lines, pieceVars, mutVars, evalVars,
                   searchVars, scaleVars>>

\* validate_line_durations, called on one of the lines.
ValidateLineDurations ==
    /\ pc = "rhythm"
    /\ \E k \in DOMAIN gen_args.lines_durations :
         gen_out' = [line_durations |-> gen_args.lines_durations[k],
                     err |-> validate_line_durations(
                                 gen_args.lines_durations[k],
                                 gen_args.valid_rhythmic_patterns,
                                 gen_args.n_measures)]
    /\ pc' = "line_validated"
    /\ UNCHANGED <<gen_args, gen_lines, pieceVars, mutVars, evalVars,
                   searchVars, scaleVars>>

\* validate_rhythm_arguments
ValidateRhythmArguments ==
    /\ pc = "rhythm"
    /\ gen_out' = [err |-> validate_rhythm_arguments(
                               gen_args.lines_durations,
                               gen_args.valid_rhythmic_patterns,
                               gen_args.n_measures,
                               gen_args.duration_weights)]
    /\ pc' = "arguments_validated"
    /\ UNCHANGED <<gen_args, gen_lines, pieceVars, mutVars, evalVars,
                   searchVars, scaleVars>>

NextGen ==
    \/ GenerateRandomPiece
    \/ GenerateLineDurations
    \/ ValidateLineDurations
    \/ ValidateRhythmArguments

SpecGen == InitGen /\ [][NextGen]_vars

\* C11: every line of a piece that generate_random_piece returns lasts
\* exactly n_measures, given or generated, starts at 0 and has every note
\* start where the previous one ends; the durations that
\* generate_line_durations returns sum to n_measures, all but the last have
\* a positive weight, and the last is a whole note when end_with_whole_note
\* is true.
C11_LinesLastNMeasures ==
    /\ pc = "generated" =>
         \A i \in DOMAIN gen_out.piece.melodic_lines :
            LET line == gen_out.piece.melodic_lines[i]
            IN /\ SumSeq([k \in DOMAIN line |-> line[k].duration])
                      = gen_args.n_measures * TicksPerMeasure
               /\ [k \in DOMAIN line |-> line[k].duration]
                      = ValueOf(gen_lines[i])
               /\ line[1].start_time = 0
               /\ \A k \in 2..Len(line) :
                      line[k].start_time
                          = line[k - 1].start_time + line[k - 1].duration
    /\ (pc = "line_generated" /\ gen_out.err = "none") =>
         LET line_durations == gen_out.line_durations
             duration_weights == ValueOf(gen_args.duration_weights)
         IN /\ SumSeq(line_durations)
                   = gen_args.n_measures * TicksPerMeasure
            /\ \A k \in 1..(Len(line_durations) - 1) :
                   /\ line_durations[k] \in DOMAIN duration_weights
                   /\ duration_weights[line_durations[k]] > 0
            /\ gen_out.end_with_whole_note
                   => line_durations[Len(line_durations)] = TicksPerMeasure

\* A piece of two measures has been generated from a rhythm that was
\* generated, of several notes one of which has weight 0 in other draws,
\* and a rhythm that was given.
C11_Witness ==
    /\ pc = "generated"
    /\ gen_args.n_measures = 2
    /\ Len(gen_args.lines_durations) = 2
    /\ gen_args.lines_durations[1] = Nothing
    /\ gen_args.lines_durations[2] # Nothing
    /\ Len(gen_out.piece.melodic_lines[1]) >= 3
    /\ ValueOf(gen_args.duration_weights)[TicksPerMeasure] = 0

\* The time at which the k-th note of a line of durations d ends.
EndOfNote(d, k) == SumSeq(SubSeq(d, 1, k))

\* What the measure in progress holds when the k-th note of d begins: the
\* notes that end after the last bar line at or before that moment, the
\* first of them cut to what follows the bar line.
MeasureInProgress(d, k) ==
    LET bar == (EndOfNote(d, k - 1) \div TicksPerMeasure) * TicksPerMeasure
        n == Cardinality({j \in 1..(k - 1) : EndOfNote(d, j) > bar})
    IN [i \in 1..n |->
           LET j == k - n + i - 1
           IN IF EndOfNote(d, j - 1) < bar THEN EndOfNote(d, j) - bar
              ELSE d[j]]

IsPrefixOfSomePattern(durations, patterns) ==
    \E p \in DOMAIN patterns :
        /\ Len(durations) <= Len(patterns[p])
        /\ \A i \in DOMAIN durations : durations[i] = patterns[p][i]

\* Condition (a) of an acceptable line.
EveryNoteContinuesAPattern(d, patterns) ==
    \A k \in DOMAIN d :
        IsPrefixOfSomePattern(Append(MeasureInProgress(d, k), d[k]), patterns)

\* What validate_line_durations is to do with a line.
ExpectedOfLine(line, patterns, n) ==
    IF line = Nothing THEN "none"
    ELSE IF ~EveryNoteContinuesAPattern(ValueOf(line), patterns)
    THEN "ValueError: disallowed rhythmic pattern"
    ELSE IF SumSeq(ValueOf(line)) # n * TicksPerMeasure
    THEN "ValueError: wrong total duration"
    ELSE "none"

IsValueError(err) == err \in {"ValueError: disallowed rhythmic pattern", "ValueError: wrong total duration", "ValueError: no duration weights"}

\* C12: validate_line_durations accepts a line exactly when every note
\* continues a valid pattern of the measure in progress (a tied note
\* carrying its overflow) and the total is n_measures, reports a disallowed
\* pattern before a wrong total, and accepts None; validate_rhythm_arguments
\* raises ValueError when a line is None and there are no weights; and
\* generate_random_piece raises these errors with no line built.
C12_RhythmIsValidated ==
    LET patterns == gen_args.valid_rhythmic_patterns
        lines == gen_args.lines_durations
        n == gen_args.n_measures
        unweighted == /\ gen_args.duration_weights = Nothing
                      /\ \E i \in DOMAIN lines : lines[i] = Nothing
        rejected == \E i \in DOMAIN lines :
                        ExpectedOfLine(lines[i], patterns, n) # "none"
    IN /\ pc = "line_validated" =>
            gen_out.err = ExpectedOfLine(gen_out.line_durations, patterns, n)
       /\ pc = "arguments_validated" =>
            /\ unweighted => IsValueError(gen_out.err)
            /\ rejected => IsValueError(gen_out.err)
            /\ (~unweighted /\ ~rejected) => gen_out.err = "none"
       /\ (pc \in {"generated", "raised"} /\ (unweighted \/ rejected)) =>
            /\ pc = "raised"
            /\ IsValueError(gen_out.err)
            /\ gen_out.piece = None
            /\ gen_lines = lines

\* A line with a note tied over the bar line has been accepted.
C12_Witness ==
    /\ pc = "line_validated"
    /\ gen_out.err = "none"
    /\ gen_out.line_durations = Some(<<4, 8, 4>>)
    /\ gen_args.n_measures = 2

\* The function that was scored, and the returned score.
Scored(fn_name) == pc = "scored" /\ eval_out.fn_name = fn_name

\* The positions in semitones of the voices of a sonority, in declaration
\* order.
Heights(sonority) ==
    [i \in DOMAIN sonority.elements |->
        sonority.elements[i].position_in_semitones]

IsNonDecreasing(heights) ==
    \A i, j \in DOMAIN heights : i < j => heights[i] <= heights[j]

\* minus the number of the sonorities that satisfy violates, divided by the
\* number of sonorities.
MinusShare(all, violates(_)) ==
    RDiv(Rat(-Cardinality({k \in DOMAIN all : violates(all[k])}), 1), Len(all))

\* C13: evaluate_absence_of_voice_crossing returns minus the number of the
\* sonorities whose voices, in declaration order, are not non-decreasing in
\* pitch height, divided by the number of sonorities.
C13_CrossingsAreCounted ==
    Scored("absence_of_voice_crossing") =>
        eval_out.score
            = MinusShare(eval_args.piece.sonorities,
                         LAMBDA s : ~IsNonDecreasing(Heights(s)))

\* The parameters the scored function was called with.
ParamsOfScored == Get(eval_args.scoring_fn_params, eval_out.fn_name, NoParams)

MaxNSemitonesOfScored ==
    Get(ParamsOfScored, "max_n_semitones", DefaultMaxNSemitones)

\* The number of pairs of pitches of a sonority that are next to each other
\* in pitch order and more than max_n_semitones apart.
NLargeGapsInPitchOrder(sonority, max_n_semitones) ==
    LET ordered == Sorted(Range(Heights(sonority)))
    IN Cardinality({k \in 1..(Len(ordered) - 1) :
                       ordered[k + 1] - ordered[k] > max_n_semitones})

\* Two voices next to each other in declaration order are more than
\* max_n_semitones apart.
HasLargeGapInDeclarationOrder(sonority, max_n_semitones) ==
    LET heights == Heights(sonority)
    IN \E i \in 1..(Len(heights) - 1) :
          \/ heights[i + 1] - heights[i] > max_n_semitones
          \/ heights[i] - heights[i + 1] > max_n_semitones

\* C14 as stated: evaluate_absence_of_large_intervals subtracts 1 for each
\* pair of voices adjacent in pitch order within a sonority that are more
\* than max_n_semitones apart, and divides by the number of sonorities.
C14_LargeIntervalsPerOccurrence ==
    Scored("absence_of_large_intervals") =>
        LET all == eval_args.piece.sonorities
        IN eval_out.score
             = RDiv(Rat(-SumSeq([k \in DOMAIN all |->
                           NLargeGapsInPitchOrder(all[k],
                                                  MaxNSemitonesOfScored)]), 1),
                    Len(all))

\* C14 amended: evaluate_absence_of_large_intervals subtracts 1 for each
\* sonority in which two voices adjacent in declaration order are strictly
\* more than max_n_semitones apart, and divides by the number of
\* sonorities.
C14_LargeIntervalsPerSonority ==
    Scored("absence_of_large_intervals") =>
        eval_out.score
            = MinusShare(eval_args.piece.sonorities,
                  LAMBDA s : HasLargeGapInDeclarationOrder(
                                 s, MaxNSemitonesOfScored))

\* Three voices have been scored with a threshold of 2: in one sonority two
\* voices adjacent in declaration order are more than 2 apart while no two
\* pitches adjacent in pitch order are, and it counts; in another a gap is
\* equal to the threshold, none is larger, and it does not count.
C14_Witness ==
    /\ Scored("absence_of_large_intervals")
    /\ MaxNSemitonesOfScored = 2
    /\ Len(eval_args.piece.melodic_lines) = 3
    /\ \E k \in DOMAIN eval_args.piece.sonorities :
         /\ HasLargeGapInDeclarationOrder(eval_args.piece.sonorities[k], 2)
         /\ NLargeGapsInPitchOrder(eval_args.piece.sonorities[k], 2) = 0
    /\ \E k \in DOMAIN eval_args.piece.sonorities :
         LET heights == Heights(eval_args.piece.sonorities[k])
         IN /\ heights[2] - heights[1] = 2
            /\ ~HasLargeGapInDeclarationOrder(eval_args.piece.sonorities[k], 2)
    /\ eval_out.score.err = "none"
    /\ RLt(Rat(-1, 1), eval_out.score)
    /\ RLt(eval_out.score, Zero)

\* The place in its line (from 0) of the note of voice i in a sonority.
PlaceInLine(sonority, i) ==
    IF sonority.indices[i] < 0
    THEN Len(eval_args.piece.melodic_lines[i]) + sonority.indices[i]
    ELSE sonority.indices[i]

DegreesBetween(sonority, i) ==
    sonority.elements[i + 1].position_in_degrees
        - sonority.elements[i].position_in_degrees

\* Voices i and i + 1 keep their interval from the first sonority to the
\* second while each of them goes to another note of its line.
MoveInParallel(first, second, i) ==
    /\ DegreesBetween(first, i) = DegreesBetween(second, i)
    /\ PlaceInLine(first, i) # PlaceInLine(second, i)
    /\ PlaceInLine(first, i + 1) # PlaceInLine(second, i + 1)

\* C15: evaluate_absence_of_parallel_intervals subtracts the penalty of the
\* table (0 for a size it does not list) for two successive sonorities and
\* two adjacent voices exactly when the interval in degrees is the same in
\* both and each voice sounds another note of its line in the second, also
\* when the second is the ending sonority; the total is divided by the
\* number of pairs of successive sonorities.
C15_OnlyParallelMotionIsPenalized ==
    (Scored("absence_of_parallel_intervals") /\ Configured) =>
        LET all == eval_args.piece.sonorities
            table == ParamsOfScored["n_degrees_to_penalty"]
            PenaltyOf(j, i) ==
                IF MoveInParallel(all[j], all[j + 1], i)
                THEN Get(table, DegreesBetween(all[j], i), Zero)
                ELSE Zero
        IN eval_out.score
             = RDiv(RNeg(RSum([j \in 1..(Len(all) - 1) |->
                           RSum([i \in 1..(Len(all[j].elements) - 1) |->
                                    PenaltyOf(j, i)])])),
                    Len(all) - 1)

\* The degrees of the notes of a sonority.
DegreesOf(sonority) ==
    {sonority.elements[i].degree : i \in DOMAIN sonority.elements}

\* The place (from 0) of a degree on the circle 1, 3, 5, 7, 2, 4, 6.
PlaceOnCircle(degree) == ((degree - 1) * 4) % 7

\* The degrees are those met on the circle of thirds in some number of
\* steps from some place of it.
IsOneArc(degrees) ==
    \E from \in 0..6, length \in 1..7 :
        {PlaceOnCircle(d) : d \in degrees}
            = {(from + t) % 7 : t \in 0..(length - 1)}

\* C16: evaluate_dominance_of_tertian_harmony returns minus the number of
\* the sonorities whose degrees do not form one arc of the circle of thirds
\* 1, 3, 5, 7, 2, 4, 6, divided by the number of sonorities; a single degree
\* and all seven degrees are arcs.
C16_NonTertianSonoritiesAreCounted ==
    Scored("dominance_of_tertian_harmony") =>
        eval_out.score
            = MinusShare(eval_args.piece.sonorities,
                         LAMBDA s : ~IsOneArc(DegreesOf(s)))

\* A piece has been scored in which one sonority has a single degree,
\* another an arc that passes from 6 to 1, and another is not an arc.
C16_Witness ==
    /\ Scored("dominance_of_tertian_harmony")
    /\ \E k \in DOMAIN eval_args.piece.sonorities :
         Cardinality(DegreesOf(eval_args.piece.sonorities[k])) = 1
    /\ \E k \in DOMAIN eval_args.piece.sonorities :
         /\ {1, 6} \subseteq DegreesOf(eval_args.piece.sonorities[k])
         /\ IsOneArc(DegreesOf(eval_args.piece.sonorities[k]))
    /\ \E k \in DOMAIN eval_args.piece.sonorities :
         ~IsOneArc(DegreesOf(eval_args.piece.sonorities[k]))
    /\ eval_out.score.err = "none"
    /\ RLt(Rat(-1, 1), eval_out.score)
    /\ RLt(eval_out.score, Zero)

\* The sonorities of all seven degrees have been scored, and none counts.
C16_AllSevenDegrees ==
    /\ Scored("dominance_of_tertian_harmony")
    /\ \A k \in DOMAIN eval_args.piece.sonorities :
         DegreesOf(eval_args.piece.sonorities[k]) = 1..7
    /\ eval_out.score = Zero

\* The sum over the successive notes of a line of the penalty of their
\* interval in semitones, 1 for an interval the table does not list.
LeapsPenalty(line, table) ==
    RSum([k \in 1..(Len(line) - 1) |->
             LET up == line[k + 1].position_in_semitones
                           - line[k].position_in_semitones
             IN IF up \in DOMAIN table THEN table[up]
                ELSE IF -up \in DOMAIN table THEN table[-up]
                ELSE One])

\* The mean over the lines of min(deduction - leaps penalty, 0) divided by
\* the number of pairs of successive notes of the line.
MeanConjunctMotion(lines, deduction, table) ==
    RDiv(RSum([i \in DOMAIN lines |->
                  RDiv(RMin(RSub(deduction, LeapsPenalty(lines[i], table)),
                            Zero),
                       Len(lines[i]) - 1)]),
         Len(lines))

\* The value of evaluate_conjunct_motion is the mean of the claim whenever
\* every line has successive notes.
ConjunctMotionOfLongerLines ==
    (Scored("conjunct_motion") /\ Configured
     /\ \A i \in DOMAIN eval_args.piece.melodic_lines :
            Len(eval_args.piece.melodic_lines[i]) >= 2)
        => eval_out.score
             = MeanConjunctMotion(eval_args.piece.melodic_lines,
                   ParamsOfScored["penalty_deduction_per_line"],
                   ParamsOfScored["n_semitones_to_penalty"])

\* C17: evaluate_conjunct_motion returns the mean over the lines of
\* min(deduction - sum of the penalties of the successive intervals, 0)
\* divided by the number of pairs of successive notes of the line, the
\* penalty of an unlisted interval being 1, and the value is defined for
\* every valid piece, whatever the lengths (>= 1) of its lines.
C17_ConjunctMotionIsDefined ==
    (Scored("conjunct_motion") /\ Configured)
        => /\ eval_out.score.err = "none"
           /\ ConjunctMotionOfLongerLines

\* The average over the unordered pairs of the voices of a sonority of the
\* table value of their interval in semitones modulo 12.
AverageOverPairs(sonority, table) ==
    LET heights == Heights(sonority)
        n == Len(heights)
        Gap(i, j) == IF heights[i] >= heights[j] THEN heights[i] - heights[j]
                     ELSE heights[j] - heights[i]
    IN RDiv(RSum([i \in 1..n |->
                RSum([j \in 1..n |->
                    IF i < j THEN table[Gap(i, j) % 12] ELSE Zero])]),
            (n * (n - 1)) \div 2)

\* The average over the voices of a sonority of the table value of their
\* degrees.
AverageOverDegrees(sonority, table) ==
    RDiv(RSum([i \in DOMAIN sonority.elements |->
                  table[sonority.elements[i].degree]]),
         Len(sonority.elements))

\* The stability of a sonority for the scored function.
StabilityOfScored(sonority) ==
    IF eval_out.fn_name = "harmonic_stability"
    THEN AverageOverPairs(sonority,
                          ParamsOfScored["n_semitones_to_stability"])
    ELSE AverageOverDegrees(sonority, ParamsOfScored["degree_to_stability"])

BelowBand(sonority) ==
    RLt(StabilityOfScored(sonority),
        ParamsOfScored["min_stabilities"][sonority.position_type])

AboveBand(sonority) ==
    RLt(ParamsOfScored["max_stabilities"][sonority.position_type],
        StabilityOfScored(sonority))

\* What a sonority adds to the score before the division by the number of
\* sonorities.
ContributionOfSonority(sonority) ==
    RAdd(IF BelowBand(sonority)
         THEN RSub(StabilityOfScored(sonority),
                   ParamsOfScored["min_stabilities"][sonority.position_type])
         ELSE Zero,
         IF AboveBand(sonority)
         THEN RSub(ParamsOfScored["max_stabilities"][sonority.position_type],
                   StabilityOfScored(sonority))
         ELSE Zero)

\* A stability function has returned a score for a piece whose sonorities
\* have a stability: any piece for evaluate_tonal_stability, a piece of
\* several voices for evaluate_harmonic_stability.
StabilityScored ==
    /\ Configured
    /\ eval_out.fn_name \in {"harmonic_stability", "tonal_stability"}
    /\ eval_out.fn_name = "harmonic_stability"
           => Len(eval_args.piece.melodic_lines) >= 2

\* C18: in evaluate_harmonic_stability and evaluate_tonal_stability a
\* sonority contributes stability - min when its stability is below the
\* minimum of its position type, max - stability when above the maximum,
\* and 0 inside the band, so that the score is 0 iff every sonority is
\* inside its band; the harmonic stability is the average over the
\* unordered pairs of voices of the table value of their interval modulo
\* 12, the tonal stability the average table value of the degrees.
C18_OnlyDeviationsAreCounted ==
    StabilityScored =>
        LET all == eval_args.piece.sonorities
        IN /\ eval_out.score
                = RDiv(RSum([k \in DOMAIN all |->
                                ContributionOfSonority(all[k])]),
                       Len(all))
           /\ eval_out.score = Zero
                <=> \A k \in DOMAIN all :
                        ~BelowBand(all[k]) /\ ~AboveBand(all[k])
           /\ \A k \in DOMAIN all :
                 ContributionOfSonority(all[k]) # Zero
                     <=> (BelowBand(all[k]) \/ AboveBand(all[k]))

\* evaluate_harmonic_stability has scored a piece of three voices with the
\* tables of the tests, in which one sonority is below its band, another
\* above and another inside.
C18_Witness ==
    /\ StabilityScored
    /\ eval_out.fn_name = "harmonic_stability"
    /\ Len(eval_args.piece.melodic_lines) = 3
    /\ ParamsOfScored["min_stabilities"] = TestMinStabilities
    /\ \E k \in DOMAIN eval_args.piece.sonorities :
         BelowBand(eval_args.piece.sonorities[k])
    /\ \E k \in DOMAIN eval_args.piece.sonorities :
         AboveBand(eval_args.piece.sonorities[k])
    /\ \E k \in DOMAIN eval_args.piece.sonorities :
         /\ ~BelowBand(eval_args.piece.sonorities[k])
         /\ ~AboveBand(eval_args.piece.sonorities[k])
    /\ RLt(eval_out.score, Zero)

\* The parameters of the scored evaluate_absence_of_narrow_ranges.
PenaltiesOfScored == ParamsOfScored["penalties"]
RangeSizeOfScored == Get(ParamsOfScored, "range_size", DefaultRangeSize)

\* The span in scale degrees of the window of a line that begins at its
\* j-th note.
SpanOfWindow(line, j) ==
    LET window == {line[k].position_in_degrees :
                      k \in j..(j + RangeSizeOfScored - 1)}
    IN SetMax(window) - SetMin(window)

\* The configured thresholds that are not below a span.
ThresholdsFor(span) == {t \in DOMAIN PenaltiesOfScored : t >= span}

\* The largest penalty among the thresholds that are not below the span,
\* nothing when there is none.
PenaltyOfSpan(span) ==
    IF ThresholdsFor(span) = {} THEN Zero
    ELSE LET largest == CHOOSE t \in ThresholdsFor(span) :
                 \A u \in ThresholdsFor(span) :
                     RLeq(PenaltiesOfScored[u], PenaltiesOfScored[t])
         IN PenaltiesOfScored[largest]

\* C19: evaluate_absence_of_narrow_ranges subtracts, for each line and each
\* window of range_size successive notes, the largest penalty among the
\* thresholds that are >= the span of the window in scale degrees, nothing
\* when the span exceeds every threshold; a line shorter than range_size
\* contributes nothing; the total is divided by the number of lines.
C19_NarrowWindowsArePenalized ==
    (Scored("absence_of_narrow_ranges") /\ Configured) =>
        LET lines == eval_args.piece.melodic_lines
            OfLine(i) ==
                IF Len(lines[i]) < RangeSizeOfScored THEN Zero
                ELSE RSum([j \in 1..(Len(lines[i]) - RangeSizeOfScored + 1) |->
                              PenaltyOfSpan(SpanOfWindow(lines[i], j))])
        IN eval_out.score
             = RDiv(RNeg(RSum([i \in DOMAIN lines |-> OfLine(i)])), Len(lines))

\* A piece has been scored in which one line is shorter than range_size,
\* another has a window wider than every threshold, and another a window
\* to which several thresholds with different penalties apply.
C19_Witness ==
    /\ Scored("absence_of_narrow_ranges")
    /\ Configured
    /\ LET lines == eval_args.piece.melodic_lines
       IN /\ \E i \in DOMAIN lines : Len(lines[i]) < RangeSizeOfScored
          /\ \E i \in DOMAIN lines :
               \E j \in 1..(Len(lines[i]) - RangeSizeOfScored + 1) :
                   ThresholdsFor(SpanOfWindow(lines[i], j)) = {}
          /\ \E i \in DOMAIN lines :
               \E j \in 1..(Len(lines[i]) - RangeSizeOfScored + 1) :
                   \E t, u \in ThresholdsFor(SpanOfWindow(lines[i], j)) :
                       PenaltiesOfScored[t] # PenaltiesOfScored[u]
    /\ RLt(eval_out.score, Zero)

\* ------------------------ SpecScale: create_diatonic_scale, slice_scale

\* The arguments: every pitch class and a letter that names none, the three
\* scale types and a name that is none, and bounds inside and outside the
\* scales, at the ends of the keyboard, and one that names no note.
ScaleTonics == Range(PitchClasses) \cup {"H"}
ScaleTypes == {"major", "natural_minor", "harmonic_minor", "dorian"}
ScaleBounds == {"A0", "C4", "C#4", "G4", "C5", "C8", "H4"}

InitScale ==
    /\ pc = "scale"
    /\ \E tonic \in ScaleTonics, scale_type \in ScaleTypes,
          lowest_note \in ScaleBounds, highest_note \in ScaleBounds :
         scale_args = [tonic |-> tonic, scale_type |-> scale_type,
                       lowest_note |-> lowest_note,
                       highest_note |-> highest_note]
    /\ scale_out = None
    /\ PieceIdle /\ MutIdle /\ EvalIdle /\ SearchIdle /\ GenIdle

\* create_diatonic_scale(tonic, scale_type)
CreateDiatonicScale ==
    /\ pc = "scale"
    /\ scale_out' = create_diatonic_scale(scale_args.tonic,
                                          scale_args.scale_type)
    /\ pc' = IF scale_out'.err = "none" THEN "scale_created"
             ELSE "scale_raised"
    /\ UNCHANGED <<scale_args, pieceVars, mutVars, evalVars, searchVars,
                   genVars>>

\* slice_scale(scale, lowest_note, highest_note) on the created scale
SliceScale ==
    /\ pc = "scale_created"
    /\ LET sliced == slice_scale(scale_out.scale, scale_args.lowest_note,
                                 scale_args.highest_note)
       IN scale_out' = [scale |-> scale_out.scale, err |-> sliced.err,
                        pitches |-> sliced.pitches]
    /\ pc' = "scale_sliced"
    /\ UNCHANGED <<scale_args, pieceVars, mutVars, evalVars, searchVars,
                   genVars>>

NextScale == CreateDiatonicScale \/ SliceScale

SpecScale == InitScale /\ [][NextScale]_vars

\* The offsets from the tonic that are degrees of the chosen pattern.
DegreeSlots ==
    {r \in 0..11 : ScalePatterns[scale_args.scale_type][r + 1] # 0}

\* C20: create_diatonic_scale keeps exactly the positions of the keyboard
\* whose offset from the tonic modulo 12 is a degree of the pattern, in
\* strictly increasing order; position_in_degrees is 0, 1, 2, ...; every
\* degree is in 1..7; the degree after d is d mod 7 + 1; two elements 12
\* semitones apart have the same degree and ordinals that differ by 7.
\* slice_scale keeps exactly the elements between the bounds, both
\* included, in the same order.
C20_ScaleIsDiatonic ==
    /\ pc \in {"scale_created", "scale_sliced"} =>
         LET scale == scale_out.scale
             tonic_position == PositionOf(scale_args.tonic \o "1").position
         IN /\ {scale[i].position_in_semitones : i \in DOMAIN scale}
                  = {p \in 0..(NKeys - 1) :
                        (p - tonic_position) % 12 \in DegreeSlots}
            /\ \A i \in DOMAIN scale :
                  /\ scale[i].position_in_degrees = i - 1
                  /\ scale[i].degree \in 1..7
                  /\ i < Len(scale) =>
                       /\ scale[i].position_in_semitones
                              < scale[i + 1].position_in_semitones
                       /\ scale[i + 1].degree = (scale[i].degree % 7) + 1
            /\ \A i, j \in DOMAIN scale :
                  scale[j].position_in_semitones
                      = scale[i].position_in_semitones + 12
                  => /\ scale[j].degree = scale[i].degree
                     /\ scale[j].position_in_degrees
                            = scale[i].position_in_degrees + 7
    /\ (pc = "scale_sliced" /\ scale_out.err = "none") =>
         LET scale == scale_out.scale
             low == PositionOf(scale_args.lowest_note).position
             high == PositionOf(scale_args.highest_note).position
             kept == {i \in DOMAIN scale :
                         /\ low <= scale[i].position_in_semitones
                         /\ scale[i].position_in_semitones <= high}
         IN /\ Len(scale_out.pitches) = Cardinality(kept)
            /\ \A k \in DOMAIN scale_out.pitches :
                  /\ SetMin(kept) + k - 1 \in kept
                  /\ scale_out.pitches[k] = scale[SetMin(kept) + k - 1]

\* The harmonic minor scale of C has been sliced between two of its notes,
\* and both are kept.
C20_Witness ==
    /\ pc = "scale_sliced"
    /\ scale_out.err = "none"
    /\ scale_args.tonic = "C"
    /\ scale_args.scale_type = "harmonic_minor"
    /\ scale_args.lowest_note = "C4"
    /\ scale_args.highest_note = "C5"
    /\ Len(scale_out.pitches) = 8
    /\ scale_out.pitches[1].note = "C4"
    /\ scale_out.pitches[8].note = "C5"
    /\ Len(scale_out.scale) > Len(scale_out.pitches)

\* The position type the claim gives the sonority of an onset that is
\* neither the first nor the last.
ExpectedPositionType(onset) ==
    LET in_measure == onset - (onset \div TicksPerMeasure) * TicksPerMeasure
    IN IF onset \in DOMAIN custom_position_types
       THEN custom_position_types[onset]
       ELSE CASE in_measure = 0 -> "downbeat"
              [] 2 * in_measure = TicksPerMeasure -> "middle"
              [] OTHER -> "other"

\* C21: every sonority of find_sonorities but the first and the last has the
\* caller's tag when custom_position_types has an entry for its onset, and
\* otherwise downbeat when the onset is at the start of a measure, middle
\* when it is half a measure later, and other in every other case.
C21_PositionTypeOfInteriorSonorities ==
    pc = "found" =>
        \A k \in 2..(Len(sonorities.sonorities) - 1) :
            sonorities.sonorities[k].position_type
                = ExpectedPositionType(OnsetOf(k))

\* Sonorities inside a piece have been tagged by the caller, as middle and
\* as downbeat, the caller tagging only some of the onsets.
C21_Witness ==
    /\ pc = "found"
    /\ custom_position_types # NoParams
    /\ \A t \in {"custom", "middle", "downbeat"} :
         \E k \in 2..(Len(sonorities.sonorities) - 1) :
             sonorities.sonorities[k].position_type = t

\* C27: find_sonorities completes without a lookup out of range on all
\* melodic lines that satisfy the invariants of a Piece (no line is empty,
\* every line starts at 0, is contiguous and lasts as long as the others),
\* also when the last note of a line starts before the second-to-last
\* distinct onset.
C27_NoLookupOutOfRange ==
    pc # "lines" => (pc = "found" /\ sonorities.err = "none")


\* C30: every call of generate_line_durations returns, never being left
\* without a duration to draw while time remains, and the line it returns,
\* with end_with_whole_note true or false, is accepted by
\* validate_line_durations with the same patterns and n_measures.
C30_GeneratedLinesAreValid ==
    pc = "line_generated" =>
        /\ gen_out.err = "none"
        /\ validate_line_durations(Some(gen_out.line_durations),
                                   gen_args.valid_rhythmic_patterns,
                                   gen_args.n_measures) = "none"


\* ------------------------------------------ the loops of the search

\* The number of steps that a search that raises nothing has still to
\* take: the calls of update_one_sonority of the passes to come, one step at
\* the end of each of them, and the return.
StepsLeft ==
    LET in_a_pass == Len(args.piece.sonorities) + 1
        passes_left == args.n_passes - pass_number
    IN CASE pc = "called" -> 2 + passes_left * in_a_pass
         [] pc = "local_search" -> 1 + passes_left * in_a_pass - position
         [] pc = "end_of_pass" ->
                1 + passes_left * in_a_pass - Len(args.piece.sonorities)
         [] pc = "return" -> 1
         [] OTHER -> 0

\* A call of update_one_sonority that returns visits the next position of
\* the pass, and the pass ends after the last sonority of the input piece.
VisitsNextPosition ==
    (pc = "local_search" /\ pc' # "raised") =>
        /\ position < Len(args.piece.sonorities)
        /\ position' = position + 1
        /\ pass_number' = pass_number
        /\ pc' = IF position' = Len(args.piece.sonorities)
                 THEN "end_of_pass" ELSE "local_search"

\* The end of a pass that does not raise starts the next pass at position 0,
\* or leaves the loop after pass n_passes, whatever the scores are and
\* whether or not the result was perturbed.
StartsNextPass ==
    (pc = "end_of_pass" /\ pc' # "raised") =>
        /\ pass_number < args.n_passes
        /\ pass_number' = pass_number + 1
        /\ position' = 0
        /\ pc' = IF pass_number' = args.n_passes
                 THEN "return" ELSE "local_search"

\* C22: the search ends, and unless an exception ends it, it ends with a
\* return after exactly n_passes passes, each of which has called
\* update_one_sonority once at every position of the input piece in
\* increasing order, with no early stop: every step takes the search one
\* step closer to its end, and a step that raises nothing exactly one.  The
\* returned piece is the one held as best, and it is equal to the input
\* piece when n_passes = 0.
C22_FixedNumberOfFullPasses ==
    /\ [][/\ VisitsNextPosition
          /\ StartsNextPass
          /\ 0 <= StepsLeft' /\ StepsLeft' < StepsLeft
          /\ pc' # "raised" => StepsLeft' = StepsLeft - 1]_vars
    /\ [](pc \in {"return", "returned"} => pass_number = args.n_passes)
    /\ [](pc = "returned" =>
             /\ final_piece = best_result.piece
             /\ args.n_passes = 0 => final_piece = args.piece)

\* The search has returned after two passes, the last of which ended with a
\* perturbation, with a best piece that is better than the input piece.
C22_Witness ==
    /\ pc = "returned"
    /\ pass_number = 2
    /\ perturbed
    /\ RLt(initial_score, best_result.score)
    /\ final_piece # args.piece


\* ------------------------------------------------ the copies of pieces

\* The search has made its three copies of the input piece.
Copied == pc # "called" /\ "best" \in DOMAIN heap

\* C23: the piece passed to the search is never modified; the caller's
\* piece and the pieces of best_result, previous_result and result are four
\* different objects, so that neither the candidates that
\* update_one_sonority writes into its working copy nor perturb, which
\* mutates the piece of result in place, alter another of them; the piece
\* and the score of best_result change only at the end of a pass in which
\* the score of result is strictly greater, by becoming those of result,
\* and previous_result changes only at the end of a pass, by becoming the
\* new result.
C23_CopiesAreIsolated ==
    /\ [](heap # None => heap.objects[heap.input] = args.piece)
    /\ [](Copied =>
             Cardinality({heap.input, heap.best, heap.previous,
                          heap.current}) = 4)
    /\ [][(pc # "called" /\ best_result' # best_result) =>
             /\ pc = "end_of_pass"
             /\ RLt(best_result.score, result.score)
             /\ best_result' = result]_vars
    /\ [][(pc # "called" /\ previous_result' # previous_result) =>
             /\ pc = "end_of_pass"
             /\ previous_result' = result']_vars

\* In the pass after a perturbation, update_one_sonority has replaced the
\* result: the best, the previous and the current piece are three different
\* pieces, and the caller's piece is as it was passed.
C23_Witness ==
    /\ pc \in {"local_search", "end_of_pass"}
    /\ perturbed
    /\ position > 0
    /\ Cardinality({best_result.piece, previous_result.piece,
                    result.piece}) = 3
    /\ previous_result.piece # args.piece
    /\ heap.objects[heap.input] = args.piece


\* ------------------------------------------------ the end of a pass

\* The notes of a piece without their pitches, and its sonorities without
\* their elements.
RhythmOf(p) ==
    [lines |-> [i \in DOMAIN p.melodic_lines |->
                   [k \in DOMAIN p.melodic_lines[i] |->
                       <<p.melodic_lines[i][k].start_time,
                         p.melodic_lines[i][k].duration>>]],
     sonorities |-> [k \in DOMAIN p.sonorities |->
                        <<p.sonorities[k].indices,
                          p.sonorities[k].position_type>>]]

\* C24: at the end of a pass that raises nothing, if the score of result is
\* strictly greater than that of best_result, best_result becomes result and
\* nothing is perturbed; otherwise, if the score of result is not greater
\* than that of previous_result, result becomes a perturbed piece with the
\* score evaluate gives it, lower or not, and best_result stays; otherwise
\* nothing changes.  Then previous_result becomes result, so that every
\* pass starts with previous_result equal to result.
C24_EndOfPassRule ==
    /\ [][(pc = "end_of_pass" /\ pc' # "raised") =>
             /\ IF RLt(best_result.score, result.score)
                THEN /\ best_result' = result
                     /\ result' = result
                     /\ ~perturbed'
                ELSE IF ~RLt(previous_result.score, result.score)
                THEN /\ best_result' = best_result
                     /\ perturbed'
                     /\ result'.score = ScoreOf(result'.piece, FALSE)
                     /\ RhythmOf(result'.piece) = RhythmOf(result.piece)
                ELSE /\ best_result' = best_result
                     /\ result' = result
                     /\ ~perturbed'
             /\ previous_result' = result']_vars
    /\ []((pc = "local_search" /\ position = 0) => previous_result = result)

\* The first pass has ended with a perturbation that has taken the score of
\* result below the score of the input piece, and the second pass starts.
C24_Witness ==
    /\ pc = "local_search"
    /\ pass_number = 1
    /\ position = 0
    /\ perturbed
    /\ previous_result = result
    /\ RLt(result.score, initial_score)
    /\ best_result.score = initial_score


\* C28: during the search the pieces of best_result, previous_result and
\* result, and the returned piece, have the rhythm of the input piece: the
\* same start time and duration of every note of every line, and the same
\* number of sonorities with the same indices and position types.
C28_RhythmIsKept ==
    /\ Copied =>
           \A held \in {best_result, previous_result, result} :
               RhythmOf(held.piece) = RhythmOf(args.piece)
    /\ pc = "returned" => RhythmOf(final_piece) = RhythmOf(args.piece)

\* The search has returned a piece with other pitches than the input piece,
\* after a pass that ended with a perturbation.
C28_Witness ==
    /\ pc = "returned"
    /\ perturbed
    /\ final_piece.melodic_lines # args.piece.melodic_lines
    /\ result.piece.melodic_lines # final_piece.melodic_lines
    /\ RhythmOf(final_piece) = RhythmOf(args.piece)


\* C29: whenever update_one_sonority has returned and whenever a pass ends
\* or starts, the score of each of best_result, previous_result and result
\* is the score that evaluate gives to the piece held with it (the input
\* pieces have sonorities that agree with their lines).
C29_ScoreBelongsToPiece ==
    pc \in {"local_search", "end_of_pass", "return", "returned"} =>
        \A held \in {best_result, previous_result, result} :
            held.score = ScoreOf(held.piece, FALSE)

\* After a perturbation, update_one_sonority has found a better piece than
\* the perturbed one, which is not as good as the best one.
C29_Witness ==
    /\ pc = "end_of_pass"
    /\ perturbed
    /\ RLt(previous_result.score, result.score)
    /\ RLt(result.score, best_result.score)
    /\ result.score = ScoreOf(result.piece, FALSE)
    /\ result.piece # previous_result.piece


\* ------------------- SpecOpt: update_one_sonority and perturb, called once

\* The lines of one measure of the pieces that are passed to
\* update_one_sonority and to perturb, and the choices of one line per
\* voice: one or two voices, and two rhythms of three voices.
OptLines == {<<8>>, <<4, 4>>, <<4, 2, 2>>}
OptRhythms ==
    Rhythms(OptLines, 1) \cup Rhythms(OptLines, 2)
        \cup {<< <<8>>, <<4, 4>>, <<4, 4>> >>,
              << <<4, 4>>, <<4, 2, 2>>, <<4, 4>> >>}

\* Pieces over a pool of 1, 3 or 4 pitches (4 for three voices only) whose
\* notes are all the first or all the last pitch of the pool, for the
\* rhythms that find_sonorities accepts.
OptPieces ==
    UNION {
      {BuildPiece(1, SubSeq(SCALE, 1, n),
                  [i \in DOMAIN rhythm |->
                      generate_random_line(
                          rhythm[i],
                          [k \in DOMAIN rhythm[i] |-> SCALE[place]], 0)],
                  NoParams) :
          rhythm \in {r \in OptRhythms :
                         /\ n = 4 => Len(r) = 3
                         /\ find_sonorities(
                             [i \in DOMAIN r |->
                                 generate_random_line(
                                     r[i],
                                     [k \in DOMAIN r[i] |-> SCALE[1]], 0)],
                                NoParams).err = "none"},
          place \in {1, n}} :
      n \in {1, 3, 4}}

\* The piece and the evaluation_params of the call, and the result that is
\* passed to update_one_sonority: the piece with its score, or with a score
\* that no piece exceeds.  The piece is the only object.
InitOpt ==
    /\ pc = "optimizer"
    /\ \E p \in OptPieces, e \in SearchEvaluationParams :
         /\ args = [piece |-> p, evaluation_params |-> e]
         /\ evaluate(p, e.scoring_coefs, e.scoring_fn_params,
                     FALSE).score.err = "none"
    /\ \E score \in {ScoreOf(args.piece, FALSE), Zero} :
         result = [piece |-> args.piece, score |-> score]
    /\ heap = [objects |-> <<args.piece>>, argument |-> 1, returned |-> 1]
    /\ draws = None
    /\ initial_score = Raise("unset")
    /\ best_result = NoResult /\ previous_result = NoResult
    /\ pass_number = 0 /\ position = 0
    /\ perturbed = FALSE /\ max_current = Raise("unset") /\ final_piece = None
    /\ PieceIdle /\ MutIdle /\ EvalIdle /\ GenIdle /\ ScaleIdle

\* The argument and the returned object of a call, the other objects left
\* out.
AfterCall(objects, argument, returned) ==
    IF returned = argument
    THEN [objects |-> <<objects[argument]>>, argument |-> 1, returned |-> 1]
    ELSE [objects |-> <<objects[argument], objects[returned]>>,
          argument |-> 1, returned |-> 2]

\* update_one_sonority(result, sonority_position, fraction_to_try,
\* **evaluation_params), called once.
CallUpdateOneSonority ==
    /\ pc = "optimizer"
    /\ \E sonority_position \in 0..(Len(args.piece.sonorities) - 1),
          fraction_to_try \in {Half, One} :
         \E tried \in TriedSets(fraction_to_try,
                          Len(Alternatives(args.piece.pitches,
                                           Len(args.piece.melodic_lines)))) :
         \E updated \in {update_one_sonority(
                             heap.objects,
                             [piece |-> heap.argument, score |-> result.score],
                             sonority_position, tried,
                             args.evaluation_params)} :
            /\ heap' = AfterCall(updated.objects, heap.argument,
                                 updated.result.piece)
            /\ result' = [piece |-> heap'.objects[heap'.returned],
                          score |-> updated.result.score]
            /\ draws' = [sonority_position |-> sonority_position,
                         fraction_to_try |-> fraction_to_try,
                         tried |-> tried]
    /\ pc' = IF result'.score.err # "none" THEN "raised" ELSE "updated"
    /\ UNCHANGED <<args, initial_score, best_result, previous_result,
                   pass_number, position, perturbed, max_current,
                   final_piece, pieceVars, mutVars, evalVars, genVars,
                   scaleVars>>

\* perturb(piece, perturbation_probability), called once on the piece of
\* the result; final_piece is the piece that is returned.  No pitches are
\* drawn for a sonority that is kept.
CallPerturb ==
    /\ pc = "optimizer"
    /\ LET n_sonorities == Len(args.piece.sonorities)
           n_alternatives == Len(Alternatives(args.piece.pitches,
                                     Len(args.piece.melodic_lines)))
       IN \E perturbation_probability \in {Zero, Half, One} :
          \E to_keep \in [1..n_sonorities ->
                             KeepDraws(perturbation_probability)],
             sample \in [1..n_sonorities -> 1..Max2(n_alternatives, 1)] :
            /\ \A k \in 1..n_sonorities : to_keep[k] => sample[k] = 1
            /\ \E new_piece \in {perturb(heap.objects, heap.argument,
                                         to_keep, sample)} :
                 /\ heap' = AfterCall(new_piece.objects, heap.argument,
                                      new_piece.piece)
                 /\ final_piece' = heap'.objects[heap'.returned]
                 /\ draws' = [perturbation_probability |->
                                  perturbation_probability,
                              to_keep |-> to_keep, sample |-> sample,
                              err |-> new_piece.err]
                 /\ pc' = IF new_piece.err # "none" THEN "raised"
                          ELSE "perturbed"
    /\ UNCHANGED <<args, initial_score, best_result, previous_result, result,
                   pass_number, position, perturbed, max_current,
                   pieceVars, mutVars, evalVars, genVars, scaleVars>>

NextOpt == CallUpdateOneSonority \/ CallPerturb

SpecOpt == InitOpt /\ [][NextOpt]_vars


\* The choices of k of the n pitches of a pool, each as the increasing
\* places of its pitches; c precedes d in the order of
\* itertools.combinations if it has the lesser place where they first
\* differ.
ChoicesOf(n, k) ==
    {c \in [1..k -> 1..n] : \A i \in 1..(k - 1) : c[i] < c[i + 1]}
Precedes(c, d) ==
    \E i \in DOMAIN c : c[i] < d[i] /\ \A j \in 1..(i - 1) : c[j] = d[j]
RankOf(c, all) == 1 + Cardinality({d \in all : Precedes(d, c)})

\* The piece p with only the notes of one sonority replaced: in the i-th
\* voice, the note at the index of the sonority takes the c[i]-th pitch of
\* the pool, and the sonorities are those of the new lines.
CandidateOf(p, sonority_position, c) ==
    LET indices == p.sonorities[sonority_position + 1].indices
    IN BuildPiece(
           p.n_measures, p.pitches,
           [i \in DOMAIN p.melodic_lines |->
               [k \in DOMAIN p.melodic_lines[i] |->
                   IF k = Place(p.melodic_lines[i], indices[i])
                   THEN PieceElement(p.pitches[c[i]],
                                     p.melodic_lines[i][k].start_time,
                                     p.melodic_lines[i][k].duration)
                   ELSE p.melodic_lines[i][k]]],
           NoParams)

\* The candidates that a call tries on the piece p: for each choice whose
\* rank is in tried_ranks, its rank, its piece and the score of that piece.
TriedCandidates(p, sonority_position, tried_ranks) ==
    UNION {
      {[rank |-> RankOf(c, all),
        piece |-> CandidateOf(p, sonority_position, c),
        score |-> ScoreOf(CandidateOf(p, sonority_position, c), FALSE)] :
          c \in {d \in all : RankOf(d, all) \in tried_ranks}} :
      all \in {ChoicesOf(Len(p.pitches), Len(p.melodic_lines))}}

\* C25: a call of update_one_sonority that returns is a best-improvement
\* step.  Its candidates are the combinations of n_voices pitches of the
\* pool in pool order, the i-th pitch going to the i-th voice, each taken as
\* the input piece with only the notes of that sonority replaced; with
\* fraction_to_try = 1 all of them are tried.  If no tried candidate has a
\* score strictly greater than the input score, the input piece and score
\* are returned unchanged; otherwise the first tried candidate that reaches
\* the greatest score among the tried ones is returned with that score.
\* The piece that was passed is not modified.
C25_BestImprovementStep ==
    [][(pc = "optimizer" /\ pc' = "updated") =>
          \A candidates \in {TriedCandidates(result.piece,
                                             draws'.sonority_position,
                                             draws'.tried)} :
             LET best == {c \in candidates :
                             \A d \in candidates : RLeq(d.score, c.score)}
                 first == CHOOSE c \in best :
                              \A d \in best : c.rank <= d.rank
             IN /\ draws'.fraction_to_try = One =>
                       Cardinality(candidates)
                           = Cardinality(ChoicesOf(
                                 Len(result.piece.pitches),
                                 Len(result.piece.melodic_lines)))
                /\ IF candidates = {} \/ ~RLt(result.score, first.score)
                   THEN result' = result
                   ELSE result' = [piece |-> first.piece,
                                   score |-> first.score]
                /\ heap'.objects[heap'.argument] = result.piece]_vars

\* update_one_sonority has tried some of the combinations, not all, and
\* two of them reach the greatest score, which is greater than that of the
\* input: the one that comes first is returned.
C25_Witness ==
    /\ pc = "updated"
    /\ draws.fraction_to_try = Half
    /\ result.piece # args.piece
    /\ Cardinality(draws.tried)
           < Cardinality(ChoicesOf(Len(args.piece.pitches),
                                   Len(args.piece.melodic_lines)))
    /\ \E c, d \in TriedCandidates(args.piece, draws.sonority_position,
                                   draws.tried) :
         /\ c.rank < d.rank
         /\ result.piece = c.piece
         /\ d.score = result.score


\* The pitch fields of a note or of an element of the pool.
PitchOf(e) ==
    <<e.note, e.position_in_semitones, e.position_in_degrees, e.degree>>

\* The places, [line, note], of the notes of the k-th sonority of p.
NotesOf(p, k) ==
    {<<i, Place(p.melodic_lines[i], p.sonorities[k].indices[i])>> :
        i \in DOMAIN p.melodic_lines}

\* The elements are n_voices pairwise distinct pitches of the pool of p,
\* from the lowest in the first voice to the highest in the last.
IsAscendingChoice(p, elements) ==
    /\ Len(elements) = Len(p.melodic_lines)
    /\ \A i \in DOMAIN elements :
         \E j \in DOMAIN p.pitches : PitchOf(elements[i]) = PitchOf(p.pitches[j])
    /\ \A i \in 1..(Len(elements) - 1) :
         elements[i].position_in_semitones
             < elements[i + 1].position_in_semitones

\* The piece when perturb has gone through the first k sonorities of
\* `before` with the given draws.
PerturbedUpTo(k, before, to_keep, sample) ==
    perturb(<<before>>, 1,
            [j \in DOMAIN to_keep |-> IF j <= k THEN to_keep[j] ELSE TRUE],
            sample).objects[1]

\* C26: a call of perturb that returns changes only pitch fields of the
\* piece it is given, in place.  With probability 0 no sonority is selected,
\* with probability 1 every sonority is.  A selected sonority receives
\* n_voices pairwise distinct pitches of the pool, in strictly ascending
\* order of pitch over the voices, and holds them in the returned piece
\* unless a sonority selected after it shares a note with it.  A note that
\* belongs to no selected sonority keeps its pitch, so a sonority that is
\* not selected and shares no note with a selected one keeps its pitches.
\* No start time, duration, index or position type changes.
C26_PerturbChangesOnlyPitches ==
    [][(pc = "optimizer" /\ pc' = "perturbed") =>
          \A before \in {result.piece}, after \in {final_piece'},
             selected \in {{k \in DOMAIN result.piece.sonorities :
                               ~draws'.to_keep[k]}} :
             /\ heap'.returned = heap'.argument
             /\ RhythmOf(after) = RhythmOf(before)
             /\ after.pitches = before.pitches
             /\ after.n_measures = before.n_measures
             /\ draws'.perturbation_probability = Zero => selected = {}
             /\ draws'.perturbation_probability = One =>
                    selected = DOMAIN before.sonorities
             /\ \A k \in selected :
                  /\ IsAscendingChoice(
                         before,
                         PerturbedUpTo(k, before, draws'.to_keep,
                                       draws'.sample).sonorities[k].elements)
                  /\ (\A j \in selected :
                         j > k => NotesOf(before, j) \cap NotesOf(before, k) = {})
                       => IsAscendingChoice(before,
                                            after.sonorities[k].elements)
             /\ \A i \in DOMAIN before.melodic_lines :
                  \A n \in DOMAIN before.melodic_lines[i] :
                     (\A k \in selected : <<i, n>> \notin NotesOf(before, k))
                        => after.melodic_lines[i][n]
                               = before.melodic_lines[i][n]
             /\ \A k \in DOMAIN before.sonorities :
                  (/\ k \notin selected
                   /\ \A j \in selected :
                         NotesOf(before, j) \cap NotesOf(before, k) = {})
                     => after.sonorities[k] = before.sonorities[k]]_vars

\* perturb has selected some sonorities and kept others: a kept sonority
\* that shares a note with a selected one has changed, and a kept sonority
\* that shares none is as it was.
C26_Witness ==
    /\ pc = "perturbed"
    /\ draws.perturbation_probability = Half
    /\ heap.objects[heap.argument] = final_piece
    /\ final_piece # args.piece
    /\ LET selected == {k \in DOMAIN args.piece.sonorities : ~draws.to_keep[k]}
       IN \E j, k \in DOMAIN args.piece.sonorities \ selected :
            /\ final_piece.sonorities[j] # args.piece.sonorities[j]
            /\ final_piece.sonorities[k] = args.piece.sonorities[k]
            /\ \A m \in selected :
                  NotesOf(args.piece, m) \cap NotesOf(args.piece, k) = {}

=============================================================================
